---- MODULE Spec2Model ----
(***************************************************************************)
(* Product catalog service: lifecycle state machine, audit history,        *)
(* pricing rules and the CRUD operations that share the products table.    *)
(* The store is PostgreSQL at READ COMMITTED: a transaction's writes are   *)
(* staged and become visible at COMMIT, a row read FOR UPDATE stays locked *)
(* until COMMIT or ROLLBACK, a single statement sent through db.query is   *)
(* its own transaction.                                                    *)
(***************************************************************************)
EXTENDS Integers, Sequences, FiniteSets, TLC

\* ---------------------------------------------------------------- bounds
MaxProducts == 3
MaxRules == 2
MaxCalls == 2
MaxBulk == 3

Workers == {"w1", "w2"}
Users == {"alice", "bob"}
Notes == {"note"}
SkuNames == <<"SKU-A", "SKU-B", "SKU-C", "SKU-D">>
Skus == {SkuNames[i] : i \in 1..MaxProducts}
Categories == {1}
Prices == {0, 1000}

Suppliers == {"sup1", "sup2"}
RatingValues == {2, 5}

NULL == "NULL"
NoId == 0
NoRating == 0
NoDate == 0
NoWorker == "none"

ProductIds == 1..MaxProducts
RuleIds == 1..MaxRules

\* ------------------------------------------------- lifecycle state table
STATES ==
  [DRAFT |-> "draft", PENDING_APPROVAL |-> "pending_approval",
   APPROVED |-> "approved", ACTIVE |-> "active",
   DISCONTINUED |-> "discontinued", ARCHIVED |-> "archived"]

validStates ==
  {STATES.DRAFT, STATES.PENDING_APPROVAL, STATES.APPROVED, STATES.ACTIVE,
   STATES.DISCONTINUED, STATES.ARCHIVED}

TRANSITIONS ==
  [draft |-> {"pending_approval", "archived"},
   pending_approval |-> {"approved", "draft"},
   approved |-> {"active"},
   active |-> {"discontinued"},
   discontinued |-> {"active", "archived"},
   archived |-> {}]

validateTransition_AllowAll(currentState, newState) ==
  currentState \in DOMAIN TRANSITIONS

validateTransition(currentState, newState) ==
  /\ currentState \in DOMAIN TRANSITIONS
  /\ newState \in TRANSITIONS[currentState]

\* ------------------------------------------------------------ the store
\* calls counts the create and lifecycle calls started so far (Product.create,
\* createProduct, transitionState, the members of a bulkApprove); it bounds
\* the runs.
VARIABLES products, rules, history, nextProductId, nextRuleId, lock, tx, calls,
          ratings, pricing

vars == <<products, rules, history, nextProductId, nextRuleId, lock, tx, calls,
          ratings, pricing>>

\* A row of the products table; exists = FALSE is "no such row".
NoProduct ==
  [exists |-> FALSE, sku |-> NULL, category_id |-> NoId, unit_price |-> 0,
   lifecycle_state |-> NULL, is_active |-> FALSE,
   approved_by |-> NULL, approved_at |-> NULL,
   average_rating |-> 0, total_ratings |-> 0]

NoRule ==
  [exists |-> FALSE, rule_name |-> NULL, rule_type |-> NULL, product_id |-> NoId,
   category_id |-> NoId, min_quantity |-> 1, discount_percentage |-> 0,
   promo_name |-> NULL, valid_from |-> NoDate, valid_until |-> NoDate,
   is_active |-> FALSE]

NoError == [kind |-> "none", current |-> NULL, attempted |-> NULL, errors |-> <<>>]

ProductNotFound ==
  [kind |-> "NotFound", current |-> NULL, attempted |-> NULL, errors |-> <<>>]

InvalidTransition(currentState, newState) ==
  [kind |-> "InvalidTransition", current |-> currentState,
   attempted |-> newState, errors |-> <<>>]

ValidationFailed(errors) ==
  [kind |-> "Validation", current |-> NULL, attempted |-> NULL, errors |-> errors]

DbError ==
  [kind |-> "Db", current |-> NULL, attempted |-> NULL, errors |-> <<>>]

\* productData.sku of a call that supplies no sku (falsy in the || test).
NoSku == ""

NoProductData == [sku |-> NoSku, category_id |-> NoId, unit_price |-> 0]

\* One call of the lifecycle service in progress on a pooled connection.
IdleTx ==
  [pc |-> "idle", op |-> "none", productId |-> NoId, newState |-> NULL,
   userId |-> NULL, notes |-> NULL, product |-> NoProduct,
   wProduct |-> NoProduct, wRules |-> {}, wHist |-> <<>>,
   error |-> NoError, ids |-> <<>>, idx |-> 0, results |-> <<>>,
   productData |-> NoProductData, sku |-> NoSku, aborted |-> FALSE,
   supplierId |-> NULL, rating |-> NoRating, beganAt |-> 0,
   avgResult |-> [avg_rating |-> 0, total_ratings |-> 0]]

\* ------------------------------------------------------- store helpers
SkuTaken(sku) == \E p \in ProductIds : products[p].exists /\ products[p].sku = sku

SkuTakenByOther(id, sku) ==
  \E p \in ProductIds \ {id} : products[p].exists /\ products[p].sku = sku

Busy(w) == tx[w].pc # "idle"

\* Rule rows updated by a transaction that has not ended yet are row-locked.
RuleLocked(r) == \E w \in Workers : Busy(w) /\ r \in tx[w].wRules

CallsRoom(n) == calls + n <= MaxCalls

\* The connection pool (config/database.js): PoolSize clients; connect
\* returns a free client or waits until one is released.
PoolSize == 2

\* Clients checked out by the call of w: one for the call's own transaction
\* and, in bulkApprove, one more while a member transitionState runs.
Connections(w) ==
  IF tx[w].pc = "idle" THEN 0
  ELSE IF tx[w].op = "bulkApprove" /\ tx[w].pc \notin {"connect", "bulk_commit"} THEN 2
  ELSE 1

RECURSIVE CheckedOut(_)
CheckedOut(W) ==
  IF W = {} THEN 0
  ELSE LET w == CHOOSE x \in W : TRUE
       IN Connections(w) + CheckedOut(W \ {w})

FreeConnections == PoolSize - CheckedOut(Workers)

\* ------------------------------------------------ Product model (CRUD)
\* Product.create: INSERT without lifecycle_state and is_active, so the
\* column defaults apply ('draft', true).  No history row is written.
ProductCreate(sku, category_id, unit_price) ==
  /\ nextProductId <= MaxProducts
  /\ CallsRoom(1)
  /\ calls' = calls + 1
  /\ ~SkuTaken(sku)
  /\ \A w \in Workers : ~(tx[w].wProduct.exists /\ tx[w].wProduct.sku = sku)
  /\ products' = [products EXCEPT ![nextProductId] =
        [exists |-> TRUE, sku |-> sku, category_id |-> category_id,
         unit_price |-> unit_price, lifecycle_state |-> "draft",
         is_active |-> TRUE, approved_by |-> NULL, approved_at |-> NULL,
         average_rating |-> 0, total_ratings |-> 0]]
  /\ nextProductId' = nextProductId + 1
  /\ UNCHANGED <<rules, history, nextRuleId, lock, tx, ratings, pricing>>

\* Product.update: only the allowedFields present in data are written;
\* "UNDEF" stands for a field absent from the request body.
ApplyUpdate_SyncsState(row, data) ==
  [row EXCEPT
     !.sku = IF data.sku = "UNDEF" THEN @ ELSE data.sku,
     !.category_id = IF data.category_id = -1 THEN @ ELSE data.category_id,
     !.unit_price = IF data.unit_price = -1 THEN @ ELSE data.unit_price,
     !.is_active = IF data.is_active = "UNDEF" THEN @ ELSE data.is_active = "true",
     !.lifecycle_state = IF data.is_active = "UNDEF" THEN @
                         ELSE IF data.is_active = "true" THEN "active"
                         ELSE "discontinued"]

ApplyUpdate(row, data) ==
  [row EXCEPT
     !.sku = IF data.sku = "UNDEF" THEN @ ELSE data.sku,
     !.category_id = IF data.category_id = -1 THEN @ ELSE data.category_id,
     !.unit_price = IF data.unit_price = -1 THEN @ ELSE data.unit_price,
     !.is_active = IF data.is_active = "UNDEF" THEN @ ELSE data.is_active = "true"]

NoData == [sku |-> "UNDEF", category_id |-> -1, unit_price |-> -1, is_active |-> "UNDEF"]

\* Request bodies accepted by updateProductSchema: one field each.
UpdateData ==
  {[NoData EXCEPT !.is_active = a] : a \in {"true", "false"}}
  \cup {[NoData EXCEPT !.category_id = c] : c \in {NoId} \cup Categories}
  \cup {[NoData EXCEPT !.unit_price = x] : x \in {y \in Prices : y > 0}}

ProductUpdate(id, data) ==
  /\ products[id].exists
  /\ lock[id] = NoWorker
  /\ data # NoData
  /\ data.sku # "UNDEF" => ~SkuTakenByOther(id, data.sku)
  /\ products' = [products EXCEPT ![id] = ApplyUpdate(@, data)]
  /\ products' # products
  /\ UNCHANGED <<rules, history, nextProductId, nextRuleId, lock, tx, calls, ratings, pricing>>

\* Product.delete: DELETE FROM products; pricing_rules.product_id and
\* product_lifecycle_history.product_id are declared ON DELETE CASCADE.
ProductDelete(id) ==
  /\ products[id].exists
  /\ lock[id] = NoWorker
  /\ products' = [products EXCEPT ![id] = NoProduct]
  /\ rules' = [r \in RuleIds |->
        IF rules[r].exists /\ rules[r].product_id = id THEN NoRule ELSE rules[r]]
  /\ history' = SelectSeq(history, LAMBDA h : h.product_id # id)
  /\ UNCHANGED <<nextProductId, nextRuleId, lock, tx, calls, ratings, pricing>>

\* ------------------------------------------------------ product ratings
\* The product_ratings rows of product p, one per supplier at most (the
\* upsert's conflict target is (product_id, supplier_id)).
RatedBy(rt, p) == {s \in Suppliers : rt[p][s] # NoRating}

RECURSIVE SumRatings(_, _, _)
SumRatings(rt, p, S) ==
  IF S = {} THEN 0
  ELSE LET s == CHOOSE x \in S : TRUE
       IN rt[p][s] + SumRatings(rt, p, S \ {s})

\* AVG(rating)::DECIMAL(3,2), in hundredths, rounded half up.
AvgRating(rt, p) ==
  LET n == Cardinality(RatedBy(rt, p))
  IN IF n = 0 THEN 0
     ELSE (2 * 100 * SumRatings(rt, p, RatedBy(rt, p)) + n) \div (2 * n)

\* rateProduct with a rating in 1..5: BEGIN, upsert of the supplier's rating,
\* AVG and COUNT over the product's ratings, UPDATE products SET
\* average_rating, total_ratings, COMMIT.  The UPDATE needs the product's
\* row lock.
rateProduct(productId, supplierId, rating) ==
  LET rt == [ratings EXCEPT ![productId][supplierId] = rating]
  IN /\ products[productId].exists
     /\ lock[productId] = NoWorker
     /\ CallsRoom(1)
     /\ calls' = calls + 1
     /\ ratings' = rt
     /\ products' = [products EXCEPT
           ![productId].average_rating = AvgRating(rt, productId),
           ![productId].total_ratings = Cardinality(RatedBy(rt, productId))]
     /\ UNCHANGED <<rules, history, nextProductId, nextRuleId, lock, tx, pricing>>

\* ------------------------------------------------------- pricing rules
\* Amounts of money are in cents and percentages in hundredths of a percent
\* (the columns are decimal(10,2) and decimal(5,2)); dates are day numbers,
\* NoDate is NULL.
RuleData(rule_type, product_id, category_id, min_quantity, discount_percentage, valid_from, valid_until) ==
  [rule_name |-> rule_type, rule_type |-> rule_type, product_id |-> product_id,
   category_id |-> category_id, min_quantity |-> min_quantity,
   discount_percentage |-> discount_percentage,
   valid_from |-> valid_from, valid_until |-> valid_until]

RuleInputs ==
  {RuleData("bulk", p, NoId, 1, 1000, NoDate, NoDate) : p \in ProductIds}
  \cup {RuleData("promotion", NoId, NoId, 1, 1000, NoDate, NoDate)}
  \cup {RuleData("category", NoId, c, 1, 1000, NoDate, NoDate) : c \in Categories}

\* The row that createPricingRule's INSERT stores: min_quantity || 1, the
\* other optional values || null, promo_name not in the column list,
\* is_active true.
RuleRow(ruleData) ==
  [exists |-> TRUE, rule_name |-> ruleData.rule_name,
   rule_type |-> ruleData.rule_type, product_id |-> ruleData.product_id,
   category_id |-> ruleData.category_id,
   min_quantity |-> IF ruleData.min_quantity = 0 THEN 1 ELSE ruleData.min_quantity,
   discount_percentage |-> ruleData.discount_percentage,
   promo_name |-> NULL,
   valid_from |-> ruleData.valid_from, valid_until |-> ruleData.valid_until,
   is_active |-> TRUE]

\* createPricingRule: INSERT ... is_active = true.  The foreign key on
\* product_id needs the product row to exist and takes a key-share lock on
\* it, which waits for a FOR UPDATE holder.
createPricingRule(ruleData) ==
  /\ nextRuleId <= MaxRules
  /\ ruleData.product_id # NoId =>
        /\ products[ruleData.product_id].exists
        /\ lock[ruleData.product_id] = NoWorker
  /\ rules' = [rules EXCEPT ![nextRuleId] = RuleRow(ruleData)]
  /\ nextRuleId' = nextRuleId + 1
  /\ UNCHANGED <<products, history, nextProductId, lock, tx, calls, ratings, pricing>>

updatePricingRule(id, is_active) ==
  /\ rules[id].exists
  /\ ~RuleLocked(id)
  /\ rules[id].is_active # is_active
  /\ rules' = [rules EXCEPT ![id].is_active = is_active]
  /\ UNCHANGED <<products, history, nextProductId, nextRuleId, lock, tx, calls, ratings, pricing>>

\* ------------------------------------------------------ price calculation
\* CURRENT_DATE
Today == 2

\* The numbers of the calculation are exact fractions n/d of a cent, d > 0,
\* in lowest terms (the code computes them in double precision, which agrees
\* after rounding to the cent except at an exact half cent).
Abs(x) == IF x < 0 THEN -x ELSE x

RECURSIVE GCD(_, _)
GCD(a, b) == IF b = 0 THEN a ELSE GCD(b, a % b)

Frac(n, d) == LET g == GCD(Abs(n), d) IN [n |-> n \div g, d |-> d \div g]

Zero == [n |-> 0, d |-> 1]

Times(a, b) ==
  LET g1 == GCD(Abs(a.n), b.d)
      g2 == GCD(Abs(b.n), a.d)
  IN Frac((a.n \div g1) * (b.n \div g2), (a.d \div g2) * (b.d \div g1))

Plus(a, b) ==
  LET l == (a.d \div GCD(a.d, b.d)) * b.d
  IN Frac(a.n * (l \div a.d) + b.n * (l \div b.d), l)

Minus(a, b) == Plus(a, [n |-> -b.n, d |-> b.d])

\* x.toFixed(2), as a number of cents.
toFixed2(x) ==
  LET m == (2 * Abs(x.n) + x.d) \div (2 * x.d)
  IN IF x.n < 0 THEN -m ELSE m

\* One call of the pricing service in progress or finished; result and
\* bundle hold what the call returned (<<>>: nothing).
IdlePricing ==
  [pc |-> "idle", op |-> "none", productId |-> NoId, quantity |-> 0,
   customerId |-> 0, product |-> NoProduct, basePrice |-> Zero,
   finalPrice |-> Zero, appliedDiscounts |-> <<>>, result |-> <<>>,
   error |-> NoError, items |-> <<>>, idx |-> 0, totalPrice |-> 0,
   totalDiscount |-> 0, itemDetails |-> <<>>, bundle |-> <<>>]

\* getProductWithPricing: WHERE id = $1 AND is_active = true.
getProductWithPricing(productId) ==
  IF products[productId].exists /\ products[productId].is_active
  THEN products[productId] ELSE NoProduct

\* (valid_from IS NULL OR valid_from <= CURRENT_DATE)
\* AND (valid_until IS NULL OR valid_until >= CURRENT_DATE)
WindowOpen(rule) ==
  /\ rule.valid_from = NoDate \/ rule.valid_from <= Today
  /\ rule.valid_until = NoDate \/ rule.valid_until >= Today

\* The promotion window read like the bulk window.
WindowBoundedOpen_NullUnbounded(rule) == WindowOpen(rule)

\* valid_from <= CURRENT_DATE AND valid_until >= CURRENT_DATE: a NULL bound
\* compares to NULL and the row is not selected.
WindowBoundedOpen(rule) ==
  /\ rule.valid_from # NoDate /\ rule.valid_from <= Today
  /\ rule.valid_until # NoDate /\ rule.valid_until >= Today

\* ORDER BY key DESC LIMIT 1 over the rows S: a row with the greatest key;
\* among rows equal on the key the statement fixes no order.
FirstRows(S, key) == {r \in S : \A q \in S : key[q] <= key[r]}

\* ORDER BY min_quantity ASC.
MinQuantity_Ascending == [r \in RuleIds |-> -rules[r].min_quantity]

MinQuantity == [r \in RuleIds |-> rules[r].min_quantity]

DiscountPercentage == [r \in RuleIds |-> rules[r].discount_percentage]

getBulkDiscount(productId, quantity) ==
  FirstRows({r \in RuleIds :
               /\ rules[r].exists
               /\ rules[r].product_id = productId
               /\ rules[r].rule_type = "bulk"
               /\ rules[r].min_quantity <= quantity
               /\ rules[r].is_active
               /\ WindowOpen(rules[r])}, MinQuantity)

getActiveTimePromotion(productId) ==
  FirstRows({r \in RuleIds :
               /\ rules[r].exists
               /\ rules[r].product_id = productId \/ rules[r].product_id = NoId
               /\ rules[r].rule_type = "promotion"
               /\ rules[r].is_active
               /\ WindowBoundedOpen(rules[r])}, DiscountPercentage)

\* category_id = $1 matches no row when the product has no category.
getCategoryDiscount(categoryId) ==
  FirstRows({r \in RuleIds :
               /\ rules[r].exists
               /\ categoryId # NoId
               /\ rules[r].category_id = categoryId
               /\ rules[r].rule_type = "category"
               /\ rules[r].is_active
               /\ WindowOpen(rules[r])}, DiscountPercentage)

\* getCustomerTier: mockTiers[customerId % 4]; getCustomerTierDiscount: the
\* tier's percentage, 0 here for "no tier discount".
mockTiers == <<"VIP", "Gold", "Silver", NULL>>

tiers == [VIP |-> 1000, Gold |-> 500, Silver |-> 200]

getCustomerTier(customerId) == mockTiers[(customerId % 4) + 1]

getCustomerTierDiscount(customerId) ==
  IF getCustomerTier(customerId) \in DOMAIN tiers
  THEN tiers[getCustomerTier(customerId)] ELSE 0

\* The price a discount after the bulk discount is computed on.
runningPrice_Base(c) == c.basePrice

runningPrice(c) == c.finalPrice

\* One discount step: amount = (on * percentage) / 100, finalPrice -= amount,
\* push {type, rule, percentage, amount: amount * quantity}.
applyDiscount(c, on, type, rule, percentage) ==
  LET amount == Times(on, Frac(percentage, 10000))
  IN [c EXCEPT !.finalPrice = Minus(@, amount),
               !.appliedDiscounts = Append(@,
                  [type |-> type, rule |-> rule, percentage |-> percentage,
                   amount |-> Times(amount, Frac(c.quantity, 1))])]

RECURSIVE SumAmounts(_)
SumAmounts(ds) ==
  IF ds = <<>> THEN Zero ELSE Plus(ds[1].amount, SumAmounts(Tail(ds)))

\* The object calculatePrice returns.
Breakdown(c) ==
  [productId |-> c.productId, quantity |-> c.quantity,
   basePrice |-> toFixed2(c.basePrice),
   pricePerUnit |-> toFixed2(c.finalPrice),
   subtotal |-> toFixed2(Times(c.basePrice, Frac(c.quantity, 1))),
   totalDiscount |-> toFixed2(SumAmounts(c.appliedDiscounts)),
   finalTotal |-> toFixed2(Times(c.finalPrice, Frac(c.quantity, 1))),
   appliedDiscounts |-> c.appliedDiscounts]

\* Entry of calculatePrice(productId, quantity, customerId).
StartPrice(c, productId, quantity, customerId) ==
  [c EXCEPT !.pc = "product", !.productId = productId, !.quantity = quantity,
            !.customerId = customerId, !.product = NoProduct,
            !.basePrice = Zero, !.finalPrice = Zero, !.appliedDiscounts = <<>>]

calculatePrice(w, productId, quantity, customerId) ==
  /\ pricing[w].pc \in {"idle", "done", "failed"}
  /\ pricing' = [pricing EXCEPT ![w] =
        StartPrice([IdlePricing EXCEPT !.op = "calculatePrice"],
                   productId, quantity, customerId)]
  /\ UNCHANGED <<products, rules, history, nextProductId, nextRuleId, lock, tx, calls, ratings>>

\* The object calculateBundlePrice returns.
BundleResult(c) ==
  LET net == Frac(c.totalPrice - c.totalDiscount, 1)
      bundleDiscount == Times(net, Frac(5, 100))
  IN [items |-> c.itemDetails,
      subtotal |-> c.totalPrice,
      itemDiscounts |-> c.totalDiscount,
      bundleDiscount |-> toFixed2(bundleDiscount),
      finalTotal |-> toFixed2(Minus(net, bundleDiscount))]

\* What follows a calculatePrice call that returns pricing.  A plain call is
\* done; inside calculateBundlePrice the totals grow, the breakdown is pushed
\* and the loop goes on to the next item or to the bundle discount.
AfterPrice(c, pricing_) ==
  LET added == [c EXCEPT !.totalPrice = @ + pricing_.subtotal,
                         !.totalDiscount = @ + pricing_.totalDiscount,
                         !.itemDetails = Append(@, pricing_)]
  IN IF c.op = "calculatePrice"
     THEN [c EXCEPT !.pc = "done", !.result = <<pricing_>>]
     ELSE IF c.idx < Len(c.items)
     THEN [StartPrice(added, c.items[c.idx + 1].productId,
                      c.items[c.idx + 1].quantity, c.items[c.idx + 1].customerId)
             EXCEPT !.idx = c.idx + 1]
     ELSE [added EXCEPT !.pc = "done", !.bundle = <<BundleResult(added)>>]

\* What follows a calculatePrice call that throws: both catch blocks log and
\* rethrow, nothing is returned.
AfterPriceFailure_SkipsItem(c, error) ==
  IF c.op = "calculatePrice"
  THEN [c EXCEPT !.pc = "failed", !.error = error]
  ELSE IF c.idx < Len(c.items)
  THEN [StartPrice(c, c.items[c.idx + 1].productId,
                   c.items[c.idx + 1].quantity, c.items[c.idx + 1].customerId)
          EXCEPT !.idx = c.idx + 1]
  ELSE [c EXCEPT !.pc = "done", !.bundle = <<BundleResult(c)>>]

AfterPriceFailure(c, error) ==
  [c EXCEPT !.pc = "failed", !.error = error]

\* getProductWithPricing and the not-found test.
PriceProduct(w) ==
  LET c == pricing[w]
      product == getProductWithPricing(c.productId)
  IN /\ c.pc = "product"
     /\ pricing' = [pricing EXCEPT ![w] =
          IF ~product.exists
          THEN AfterPriceFailure(c, ProductNotFound)
          ELSE [c EXCEPT !.product = product,
                         !.basePrice = Frac(product.unit_price, 1),
                         !.finalPrice = Frac(product.unit_price, 1),
                         !.pc = "bulk"]]
     /\ UNCHANGED <<products, rules, history, nextProductId, nextRuleId, lock, tx, calls, ratings>>

\* 1. getBulkDiscount; the discount is computed on basePrice.
PriceBulk(w) ==
  LET c == pricing[w]
      rows == getBulkDiscount(c.productId, c.quantity)
  IN /\ c.pc = "bulk"
     /\ IF rows = {}
        THEN pricing' = [pricing EXCEPT ![w].pc = "promotion"]
        ELSE \E r \in rows :
               pricing' = [pricing EXCEPT ![w] =
                 [applyDiscount(c, c.basePrice, "bulk", rules[r].rule_name,
                                rules[r].discount_percentage)
                    EXCEPT !.pc = "promotion"]]
     /\ UNCHANGED <<products, rules, history, nextProductId, nextRuleId, lock, tx, calls, ratings>>

\* 2. getActiveTimePromotion; the discount is computed on finalPrice.
PricePromotion(w) ==
  LET c == pricing[w]
      rows == getActiveTimePromotion(c.productId)
  IN /\ c.pc = "promotion"
     /\ IF rows = {}
        THEN pricing' = [pricing EXCEPT ![w].pc = "category"]
        ELSE \E r \in rows :
               pricing' = [pricing EXCEPT ![w] =
                 [applyDiscount(c, runningPrice(c), "promotion", rules[r].promo_name,
                                rules[r].discount_percentage)
                    EXCEPT !.pc = "category"]]
     /\ UNCHANGED <<products, rules, history, nextProductId, nextRuleId, lock, tx, calls, ratings>>

\* 4. the customer tier (no query), the totals and the return.
PriceTierAndTotals(c) ==
  LET percentage == getCustomerTierDiscount(c.customerId)
      tiered == IF c.customerId # 0 /\ percentage # 0
                THEN applyDiscount(c, runningPrice(c), "customer_tier",
                                   getCustomerTier(c.customerId) \o " Tier", percentage)
                ELSE c
  IN AfterPrice(tiered, Breakdown(tiered))

\* 3. getCategoryDiscount(product.category_id), then step 4.
PriceCategory(w) ==
  LET c == pricing[w]
      rows == getCategoryDiscount(c.product.category_id)
  IN /\ c.pc = "category"
     /\ IF rows = {}
        THEN pricing' = [pricing EXCEPT ![w] = PriceTierAndTotals(c)]
        ELSE \E r \in rows :
               pricing' = [pricing EXCEPT ![w] =
                 PriceTierAndTotals(
                   applyDiscount(c, runningPrice(c), "category", rules[r].rule_name,
                                 rules[r].discount_percentage))]
     /\ UNCHANGED <<products, rules, history, nextProductId, nextRuleId, lock, tx, calls, ratings>>

PriceStep(w) ==
  \/ PriceProduct(w)
  \/ PriceBulk(w)
  \/ PricePromotion(w)
  \/ PriceCategory(w)

\* calculateBundlePrice(bundleItems), bundleItems not empty: the first item.
calculateBundlePrice(w, bundleItems) ==
  /\ pricing[w].pc \in {"idle", "done", "failed"}
  /\ pricing' = [pricing EXCEPT ![w] =
        StartPrice([IdlePricing EXCEPT !.op = "calculateBundlePrice",
                                       !.items = bundleItems, !.idx = 1],
                   bundleItems[1].productId, bundleItems[1].quantity,
                   bundleItems[1].customerId)]
  /\ UNCHANGED <<products, rules, history, nextProductId, nextRuleId, lock, tx, calls, ratings>>

\* ------------------------------------------- lifecycle: createProduct
HistoryEntry(productId, oldState, newState, changedBy, notes, changedAt) ==
  [product_id |-> productId, old_state |-> oldState, new_state |-> newState,
   changed_by |-> changedBy, notes |-> notes, changed_at |-> changedAt]

\* createProduct: BEGIN, SKU check, INSERT in DRAFT (is_active is not in the
\* column list, so the default true applies), logLifecycleEvent, COMMIT.
InsertedProduct(productData) ==
  [exists |-> TRUE, sku |-> productData.sku,
   category_id |-> productData.category_id,
   unit_price |-> productData.unit_price,
   lifecycle_state |-> STATES.DRAFT, is_active |-> TRUE,
   approved_by |-> NULL, approved_at |-> NULL,
   average_rating |-> 0, total_ratings |-> 0]

ProductData ==
  [sku : Skus \cup {NoSku}, category_id : Categories, unit_price : Prices]

\* The categories table: id -> code.  Category.create never writes code, so
\* codes come from the database seed.
CategoryCodes == [c \in Categories |-> "ELE"]

\* new Date().getFullYear()
Year == 2025

Digits == <<"0", "1", "2", "3", "4", "5", "6", "7", "8", "9">>

IsDigit(c) == \E d \in 1..10 : Digits[d] = c

DigitValue(c) == (CHOOSE d \in 1..10 : Digits[d] = c) - 1

\* String(sequence).padStart(4, "0"): zeros are added up to length 4, a
\* longer string is left as it is.
RECURSIVE padStart(_, _, _)
padStart(str, targetLength, padString) ==
  IF Len(str) >= targetLength THEN str
  ELSE padStart(padString \o str, targetLength, padString)

\* sku LIKE '<prefix>%'
Like(sku, prefix) ==
  Len(sku) >= Len(prefix) /\ SubSeq(sku, 1, Len(prefix)) = prefix

\* SUBSTRING(sku FROM '<prefix>(\d+)'): the digits that follow the prefix, as
\* many as there are; "" stands for NULL (no match).
RECURSIVE DigitRun(_, _)
DigitRun(str, i) ==
  IF i > Len(str) \/ ~IsDigit(SubSeq(str, i, i)) THEN ""
  ELSE SubSeq(str, i, i) \o DigitRun(str, i + 1)

\* CAST(... AS INTEGER)
RECURSIVE CastInteger(_)
CastInteger(str) ==
  IF str = "" THEN 0
  ELSE 10 * CastInteger(SubSeq(str, 1, Len(str) - 1))
       + DigitValue(SubSeq(str, Len(str), Len(str)))

Max(S) == CHOOSE x \in S : \A y \in S : y <= x

\* changed_at defaults to current_timestamp, the start time of the inserting
\* transaction.  Only the order of these times matters: a transaction that
\* begins now is later than every transaction still running and than every
\* history row in the table.
BeginTime ==
  1 + Max({0} \cup {history[i].changed_at : i \in 1..Len(history)}
              \cup {tx[w].beganAt : w \in Workers})

\* COALESCE(MAX(CAST(SUBSTRING(...) AS INTEGER)), 0) + 1 over the rows with
\* sku LIKE '<prefix>%'; MAX skips the rows whose SUBSTRING is NULL.
NextSeq(prefix) ==
  LET matched == {p \in ProductIds : products[p].exists /\ Like(products[p].sku, prefix)
                                     /\ DigitRun(products[p].sku, Len(prefix) + 1) # ""}
  IN Max({0} \cup {CastInteger(DigitRun(products[p].sku, Len(prefix) + 1)) : p \in matched}) + 1

\* generateSKU when both queries succeed.
generateSKU(productData) ==
  LET categoryCode == IF productData.category_id \in DOMAIN CategoryCodes
                      THEN CategoryCodes[productData.category_id] ELSE "GEN"
      prefix == categoryCode \o "-" \o ToString(Year) \o "-"
  IN prefix \o padStart(ToString(NextSeq(prefix)), 4, "0")

\* `PROD-${Date.now()}-${Math.floor(Math.random() * 1000)}`
FallbackSkus == {"PROD-1700000000000-7", "PROD-1700000000000-8"}

Conflict == [kind |-> "Conflict", current |-> NULL, attempted |-> NULL, errors |-> <<>>]

UniqueViolation ==
  [kind |-> "UniqueViolation", current |-> NULL, attempted |-> NULL, errors |-> <<>>]

\* createProduct: pool.connect, BEGIN; the next query is generateSKU's when
\* productData.sku is falsy, else checkSKUExists'.
createProduct(w, productData, createdBy) ==
  /\ tx[w].pc = "idle"
  /\ FreeConnections > 0
  /\ CallsRoom(1)
  /\ calls' = calls + 1
  /\ tx' = [tx EXCEPT ![w] =
        [IdleTx EXCEPT !.op = "createProduct", !.productData = productData,
                       !.sku = productData.sku, !.beganAt = BeginTime,
                       !.pc = IF productData.sku = NoSku THEN "generate" ELSE "check",
                       !.newState = STATES.DRAFT, !.userId = createdBy,
                       !.notes = "Product created"]]
  /\ UNCHANGED <<products, rules, history, nextProductId, nextRuleId, lock, ratings, pricing>>

\* -------------------------------------- lifecycle: transitionState
\* SELECT ... FOR UPDATE returns once no other transaction holds the row.
CanLockRow_NoForUpdate(productId) == TRUE

CanLockRow(productId) == lock[productId] = NoWorker

\* validateProductForActivation: every violated rule is collected.  The
\* driver returns decimal columns as non-empty strings, so !unit_price is
\* never true and the price test is the numeric comparison.
validateProductForActivation_FirstOnly(product) ==
  IF product.unit_price <= 0 THEN <<"Valid unit price required">>
  ELSE IF product.sku = "" THEN <<"SKU required">>
  ELSE IF product.category_id = NoId THEN <<"Category required">>
  ELSE <<>>

validateProductForActivation(product) ==
  (IF product.unit_price <= 0 THEN <<"Valid unit price required">> ELSE <<>>)
  \o (IF product.sku = "" THEN <<"SKU required">> ELSE <<>>)
  \o (IF product.category_id = NoId THEN <<"Category required">> ELSE <<>>)

\* The UPDATE products statement of transitionState applied to a row.
UpdatedProduct_StampsAlways(row, newState, userId) ==
  [row EXCEPT
     !.lifecycle_state = newState,
     !.is_active = IF newState = STATES.ACTIVE THEN TRUE
                   ELSE IF newState \in {STATES.DISCONTINUED, STATES.ARCHIVED}
                        THEN FALSE ELSE @,
     !.approved_by = userId,
     !.approved_at = "CURRENT_TIMESTAMP"]

UpdatedProduct(row, newState, userId) ==
  [row EXCEPT
     !.lifecycle_state = newState,
     !.is_active = IF newState = STATES.ACTIVE THEN TRUE
                   ELSE IF newState \in {STATES.DISCONTINUED, STATES.ARCHIVED}
                        THEN FALSE ELSE @,
     !.approved_by = IF newState = STATES.APPROVED THEN userId ELSE @,
     !.approved_at = IF newState = STATES.APPROVED THEN "CURRENT_TIMESTAMP" ELSE @]

\* Rows matched by UPDATE pricing_rules ... WHERE product_id = $1.
ArchivedRules_AllRules(productId) == {r \in RuleIds : rules[r].exists}

ArchivedRules(productId) ==
  {r \in RuleIds : rules[r].exists /\ rules[r].product_id = productId}

\* Entry of a transitionState call: pool.connect and BEGIN.  A plain call
\* starts once a client is free; a member of bulkApprove waits for its
\* client while bulkApprove holds its own.
StartTransition(t, productId, newState, userId, notes) ==
  [t EXCEPT !.pc = IF t.op = "bulkApprove" THEN "connect" ELSE "select",
            !.beganAt = IF t.op = "bulkApprove" THEN 0 ELSE BeginTime,
            !.productId = productId, !.newState = newState,
            !.userId = userId, !.notes = notes, !.product = NoProduct,
            !.wProduct = NoProduct, !.wRules = {}, !.wHist = <<>>,
            !.error = NoError]

transitionState(w, productId, newState, userId, notes) ==
  /\ tx[w].pc = "idle"
  /\ FreeConnections > 0
  /\ CallsRoom(1)
  /\ calls' = calls + 1
  /\ tx' = [tx EXCEPT ![w] =
        StartTransition([IdleTx EXCEPT !.op = "transitionState"],
                        productId, newState, userId, notes)]
  /\ UNCHANGED <<products, rules, history, nextProductId, nextRuleId, lock, ratings, pricing>>

\* The member's db.pool.connect() returns, BEGIN.
TxConnect(w) ==
  /\ tx[w].pc = "connect"
  /\ FreeConnections > 0
  /\ tx' = [tx EXCEPT ![w].pc = "select", ![w].beganAt = BeginTime]
  /\ UNCHANGED <<products, rules, history, nextProductId, nextRuleId, lock, calls, ratings, pricing>>

Throw(w, error) == [tx EXCEPT ![w].pc = "rollback", ![w].error = error]

\* SELECT ... FOR UPDATE, then the synchronous part up to the next query:
\* the not-found test, validateTransition and handleStateTransition's
\* dispatch (activation validation does no I/O).
TxSelect(w) ==
  LET t == tx[w]
      p == t.productId
      product == products[p]
      errors == validateProductForActivation(product)
  IN /\ t.pc = "select"
     /\ IF ~product.exists
        THEN /\ tx' = Throw(w, ProductNotFound)
             /\ UNCHANGED lock
        ELSE /\ CanLockRow(p)
             /\ lock' = [lock EXCEPT ![p] = w]
             /\ IF ~validateTransition(product.lifecycle_state, t.newState)
                THEN tx' = [Throw(w, InvalidTransition(product.lifecycle_state, t.newState))
                              EXCEPT ![w].product = product]
                ELSE IF t.newState = STATES.ACTIVE /\ errors # <<>>
                THEN tx' = [Throw(w, ValidationFailed(errors)) EXCEPT ![w].product = product]
                ELSE tx' = [tx EXCEPT ![w].product = product,
                                      ![w].pc = IF t.newState = STATES.ARCHIVED
                                                THEN "archive" ELSE "update"]
     /\ UNCHANGED <<products, rules, history, nextProductId, nextRuleId, calls, ratings, pricing>>

\* archiveRelatedData: the UPDATE runs on the transaction's client.
archiveRelatedData_Autocommit(w) ==
  /\ rules' = [r \in RuleIds |->
        IF r \in ArchivedRules(tx[w].productId)
        THEN [rules[r] EXCEPT !.is_active = FALSE] ELSE rules[r]]
  /\ tx' = [tx EXCEPT ![w].pc = "update"]

archiveRelatedData(w) ==
  /\ rules' = rules
  /\ tx' = [tx EXCEPT ![w].wRules = ArchivedRules(tx[w].productId),
                      ![w].pc = "update"]

TxArchive(w) ==
  /\ tx[w].pc = "archive"
  /\ \/ archiveRelatedData(w)
     \/ /\ tx' = Throw(w, DbError)
        /\ UNCHANGED rules
  /\ UNCHANGED <<products, history, nextProductId, nextRuleId, lock, calls, ratings, pricing>>

TxUpdate(w) ==
  /\ tx[w].pc = "update"
  /\ \/ tx' = [tx EXCEPT ![w].wProduct =
                  UpdatedProduct(products[tx[w].productId], tx[w].newState, tx[w].userId),
                         ![w].pc = "log"]
     \/ tx' = Throw(w, DbError)
  /\ UNCHANGED <<products, rules, history, nextProductId, nextRuleId, lock, calls, ratings, pricing>>

\* logLifecycleEvent(productId, currentState, newState, userId, notes, client)
logLifecycleEvent(t) ==
  <<HistoryEntry(t.productId, t.product.lifecycle_state, t.newState, t.userId, t.notes,
                 t.beganAt)>>

TxLog(w) ==
  /\ tx[w].pc = "log"
  /\ \/ tx' = [tx EXCEPT ![w].wHist = logLifecycleEvent(tx[w]), ![w].pc = "commit"]
     \/ tx' = Throw(w, DbError)
  /\ UNCHANGED <<products, rules, history, nextProductId, nextRuleId, lock, calls, ratings, pricing>>

\* What follows the end of a transitionState call.  A plain call returns or
\* throws to its caller and the worker is free again; inside bulkApprove the
\* inner try/catch pushes one result and the loop goes on to the next id
\* (connect, BEGIN), and after the last id to bulkApprove's own COMMIT.
AfterMember_AbortOnFailure(t, ok) ==
  LET res == [productId |-> t.productId, success |-> ok, error |-> t.error]
      pushed == [t EXCEPT !.results = Append(@, res), !.idx = @ + 1,
                          !.wProduct = NoProduct, !.wRules = {}, !.wHist = <<>>]
  IN IF t.op # "bulkApprove" \/ ~ok
     THEN IdleTx
     ELSE IF t.idx < Len(t.ids)
     THEN StartTransition(pushed, t.ids[t.idx + 1], STATES.APPROVED, t.userId, t.notes)
     ELSE [pushed EXCEPT !.pc = "bulk_commit", !.product = NoProduct, !.error = NoError]

AfterMember(t, ok) ==
  LET res == [productId |-> t.productId, success |-> ok, error |-> t.error]
      pushed == [t EXCEPT !.results = Append(@, res), !.idx = @ + 1,
                          !.wProduct = NoProduct, !.wRules = {}, !.wHist = <<>>]
  IN IF t.op # "bulkApprove"
     THEN IdleTx
     ELSE IF t.idx < Len(t.ids)
     THEN StartTransition(pushed, t.ids[t.idx + 1], STATES.APPROVED, t.userId, t.notes)
     ELSE [pushed EXCEPT !.pc = "bulk_commit", !.product = NoProduct, !.error = NoError]

Unlock(w) == [p \in ProductIds |-> IF lock[p] = w THEN NoWorker ELSE lock[p]]

\* The staged writes of w become the committed rows.
ApplyWrites(w) ==
  /\ products' = IF tx[w].wProduct.exists
                 THEN [products EXCEPT ![tx[w].productId] = tx[w].wProduct]
                 ELSE products
  /\ rules' = [r \in RuleIds |->
        IF r \in tx[w].wRules THEN [rules[r] EXCEPT !.is_active = FALSE] ELSE rules[r]]
  /\ history' = history \o tx[w].wHist

\* COMMIT, client.release, return updatedProduct.
TxCommit(w) ==
  /\ tx[w].pc = "commit"
  /\ ApplyWrites(w)
  /\ lock' = Unlock(w)
  /\ tx' = [tx EXCEPT ![w] = AfterMember(tx[w], TRUE)]
  /\ UNCHANGED <<nextProductId, nextRuleId, calls, ratings, pricing>>

\* catch: ROLLBACK, rethrow; finally: client.release.
TxRollback_Commits(w) ==
  /\ tx[w].pc = "rollback"
  /\ ApplyWrites(w)
  /\ lock' = Unlock(w)
  /\ tx' = [tx EXCEPT ![w] = AfterMember(tx[w], FALSE)]
  /\ UNCHANGED <<nextProductId, nextRuleId, calls, ratings, pricing>>

TxRollback_KeepsLock(w) ==
  /\ tx[w].pc = "rollback"
  /\ lock' = lock
  /\ tx' = [tx EXCEPT ![w] = AfterMember(tx[w], FALSE)]
  /\ UNCHANGED <<products, rules, history, nextProductId, nextRuleId, calls, ratings, pricing>>

TxRollback(w) ==
  /\ tx[w].pc = "rollback"
  /\ lock' = Unlock(w)
  /\ tx' = [tx EXCEPT ![w] = AfterMember(tx[w], FALSE)]
  /\ UNCHANGED <<products, rules, history, nextProductId, nextRuleId, calls, ratings, pricing>>

\* ------------------------------------ product ratings: the steps of a call
\* rateProduct query by query, for calls that run concurrently.  Every
\* statement sees the rows committed when it runs and the call's own writes
\* (READ COMMITTED); ratings holds the committed product_ratings rows.
RatingInputs == {0, 2, 5, 6}

\* w has upserted its rating row and not yet committed or rolled back.
RatingStaged(w) ==
  tx[w].op = "rateProduct" /\ tx[w].pc \in {"rate_avg", "rate_update", "rate_commit"}

\* db.getClient, then the range test: 400 without BEGIN for a rating that is
\* falsy, below 1 or above 5.
RateRequest(w, productId, supplierId, rating) ==
  /\ tx[w].pc = "idle"
  /\ FreeConnections > 0
  /\ products[productId].exists
  /\ CallsRoom(1)
  /\ calls' = calls + 1
  /\ tx' = [tx EXCEPT ![w] =
        [IdleTx EXCEPT !.op = "rateProduct", !.pc = "rate_check",
                       !.productId = productId, !.supplierId = supplierId,
                       !.rating = rating]]
  /\ UNCHANGED <<products, rules, history, nextProductId, nextRuleId, lock, ratings, pricing>>

RateCheck(w) ==
  /\ tx[w].pc = "rate_check"
  /\ tx' = [tx EXCEPT ![w] =
        IF tx[w].rating = 0 \/ tx[w].rating < 1 \/ tx[w].rating > 5
        THEN IdleTx
        ELSE [@ EXCEPT !.pc = "rate_upsert"]]
  /\ UNCHANGED <<products, rules, history, nextProductId, nextRuleId, lock, calls, ratings, pricing>>

\* BEGIN; INSERT ... ON CONFLICT (product_id, supplier_id) DO UPDATE: waits
\* while another transaction holds an uncommitted row with the same key.
RateUpsert(w) ==
  /\ tx[w].pc = "rate_upsert"
  /\ ~\E v \in Workers \ {w} :
        /\ RatingStaged(v)
        /\ tx[v].productId = tx[w].productId
        /\ tx[v].supplierId = tx[w].supplierId
  /\ \/ tx' = [tx EXCEPT ![w].pc = "rate_avg"]
     \/ tx' = Throw(w, DbError)
  /\ UNCHANGED <<products, rules, history, nextProductId, nextRuleId, lock, calls, ratings, pricing>>

\* SELECT AVG(rating)::DECIMAL(3,2), COUNT(*) ... WHERE product_id = $1: the
\* committed rows and the call's own row.
RateAggregate(w) ==
  LET rt == [ratings EXCEPT ![tx[w].productId][tx[w].supplierId] = tx[w].rating]
  IN [avg_rating |-> AvgRating(rt, tx[w].productId),
      total_ratings |-> Cardinality(RatedBy(rt, tx[w].productId))]

RateAvg(w) ==
  /\ tx[w].pc = "rate_avg"
  /\ tx' = [tx EXCEPT ![w].avgResult = RateAggregate(w), ![w].pc = "rate_update"]
  /\ UNCHANGED <<products, rules, history, nextProductId, nextRuleId, lock, calls, ratings, pricing>>

\* UPDATE products SET average_rating = $1, total_ratings = $2 WHERE id = $3:
\* waits for the row's lock and keeps it until the transaction ends.
RateUpdate(w) ==
  /\ tx[w].pc = "rate_update"
  /\ CanLockRow(tx[w].productId)
  /\ lock' = [lock EXCEPT ![tx[w].productId] = w]
  /\ tx' = [tx EXCEPT ![w].pc = "rate_commit"]
  /\ UNCHANGED <<products, rules, history, nextProductId, nextRuleId, calls, ratings, pricing>>

\* COMMIT, 200, client.release.
RateCommit(w) ==
  /\ tx[w].pc = "rate_commit"
  /\ ratings' = [ratings EXCEPT ![tx[w].productId][tx[w].supplierId] = tx[w].rating]
  /\ products' = [products EXCEPT
        ![tx[w].productId].average_rating = tx[w].avgResult.avg_rating,
        ![tx[w].productId].total_ratings = tx[w].avgResult.total_ratings]
  /\ lock' = Unlock(w)
  /\ tx' = [tx EXCEPT ![w] = IdleTx]
  /\ UNCHANGED <<rules, history, nextProductId, nextRuleId, calls, pricing>>

RateStep(w) ==
  \/ RateCheck(w)
  \/ RateUpsert(w)
  \/ RateAvg(w)
  \/ RateUpdate(w)
  \/ RateCommit(w)
  \/ TxRollback(w)

\* ------------------------------------------- lifecycle: the controllers
\* error.message of what the service throws.
RECURSIVE join(_, _)
join(strs, sep) ==
  IF strs = <<>> THEN ""
  ELSE IF Len(strs) = 1 THEN strs[1]
  ELSE strs[1] \o sep \o join(Tail(strs), sep)

errorMessage(error) ==
  CASE error.kind = "NotFound" -> "Product not found"
    [] error.kind = "InvalidTransition" ->
         "Invalid state transition: " \o error.current \o " -> " \o error.attempted
    [] error.kind = "Validation" ->
         "Product validation failed: " \o join(error.errors, ", ")
    [] OTHER -> "query failed"

\* String.prototype.includes
includes(str, searchString) ==
  \E i \in 1..(Len(str) - Len(searchString) + 1) :
    SubSeq(str, i, i + Len(searchString) - 1) = searchString

\* The handlers that call transitionState: the generic one takes newState
\* from the body, each shortcut passes its own target state.
ShortcutTargets ==
  [submitForApproval |-> STATES.PENDING_APPROVAL, approveProduct |-> STATES.APPROVED,
   activateProduct |-> STATES.ACTIVE, discontinueProduct |-> STATES.DISCONTINUED,
   archiveProduct |-> STATES.ARCHIVED]

HandlersFor(newState) ==
  {"transitionState"} \cup {h \in DOMAIN ShortcutTargets : ShortcutTargets[h] = newState}

\* The status a handler responds with when the service call returned
\* (NoError) or threw error: only the generic handler looks at the message,
\* the shortcuts answer every error with 500.
responseStatus(handler, error) ==
  IF error = NoError THEN 200
  ELSE IF handler = "transitionState"
          /\ includes(errorMessage(error), "Invalid state transition")
  THEN 400
  ELSE 500

\* --------------------------------- lifecycle: the steps of createProduct
\* A product row inserted by a transaction that has not ended yet: another
\* INSERT of the same sku waits on the unique index until it ends.
SkuStagedByOther(w, sku) ==
  \E v \in Workers \ {w} :
    tx[v].op = "createProduct" /\ tx[v].wProduct.exists /\ tx[v].wProduct.sku = sku

\* generateSKU: its two queries run on the transaction's client.  When one
\* fails the catch block returns the random SKU, and the server has put the
\* transaction in the aborted state, where it refuses every later statement.
TxGenerate(w) ==
  /\ tx[w].pc = "generate"
  /\ \/ tx' = [tx EXCEPT ![w].sku = generateSKU(tx[w].productData), ![w].pc = "check"]
     \/ \E sku \in FallbackSkus :
          tx' = [tx EXCEPT ![w].sku = sku, ![w].aborted = TRUE, ![w].pc = "check"]
  /\ UNCHANGED <<products, rules, history, nextProductId, nextRuleId, lock, calls, ratings, pricing>>

\* checkSKUExists and the test on its result.
checkSKUExists(sku) == SkuTaken(sku)

TxCheckSku(w) ==
  /\ tx[w].pc = "check"
  /\ IF tx[w].aborted
     THEN tx' = Throw(w, DbError)
     ELSE \/ tx' = IF checkSKUExists(tx[w].sku)
                   THEN Throw(w, Conflict)
                   ELSE [tx EXCEPT ![w].pc = "insert"]
          \/ tx' = Throw(w, DbError)
  /\ UNCHANGED <<products, rules, history, nextProductId, nextRuleId, lock, calls, ratings, pricing>>

\* The unique constraint on products.sku, tested by INSERT against the
\* committed rows.
SkuUnique_NotEnforced(sku) == TRUE

SkuUnique(sku) == ~SkuTaken(sku)

\* INSERT INTO products ... RETURNING *: the row is staged in the
\* transaction under the next id of the sequence.
insertProduct_Autocommit(w, row) ==
  /\ products' = [products EXCEPT ![nextProductId] = row]
  /\ tx' = [tx EXCEPT ![w].productId = nextProductId, ![w].pc = "create_log"]

insertProduct(w, row) ==
  /\ products' = products
  /\ tx' = [tx EXCEPT ![w].wProduct = row, ![w].productId = nextProductId,
                      ![w].pc = "create_log"]

TxInsert(w) ==
  LET t == tx[w]
  IN /\ t.pc = "insert"
     /\ ~SkuStagedByOther(w, t.sku)
     /\ IF ~SkuUnique(t.sku)
        THEN /\ tx' = Throw(w, UniqueViolation)
             /\ UNCHANGED <<products, nextProductId, pricing>>
        ELSE \/ /\ nextProductId <= MaxProducts
                /\ insertProduct(w, InsertedProduct([t.productData EXCEPT !.sku = t.sku]))
                /\ nextProductId' = nextProductId + 1
             \/ /\ tx' = Throw(w, DbError)
                /\ UNCHANGED <<products, nextProductId, pricing>>
     /\ UNCHANGED <<rules, history, nextRuleId, lock, calls, ratings, pricing>>

\* logLifecycleEvent(product.id, null, DRAFT, createdBy, "Product created")
TxCreateLog(w) ==
  /\ tx[w].pc = "create_log"
  /\ \/ tx' = [tx EXCEPT ![w].wHist = logLifecycleEvent(tx[w]), ![w].pc = "create_commit"]
     \/ tx' = Throw(w, DbError)
  /\ UNCHANGED <<products, rules, history, nextProductId, nextRuleId, lock, calls, ratings, pricing>>

\* COMMIT, release, return product.
TxCreateCommit(w) ==
  /\ tx[w].pc = "create_commit"
  /\ ApplyWrites(w)
  /\ tx' = [tx EXCEPT ![w] = IdleTx]
  /\ UNCHANGED <<nextProductId, nextRuleId, lock, calls, ratings, pricing>>

CreateStep(w) ==
  \/ TxGenerate(w)
  \/ TxCheckSku(w)
  \/ TxInsert(w)
  \/ TxCreateLog(w)
  \/ TxCreateCommit(w)

\* ------------------------------------------ lifecycle: bulkApprove
BulkLists == UNION {[1..n -> ProductIds] : n \in 1..MaxBulk}

\* bulkApprove: connect, BEGIN on its own client, then the first member.
bulkApprove(w, productIds, userId, notes) ==
  /\ tx[w].pc = "idle"
  /\ FreeConnections > 0
  /\ tx' = [tx EXCEPT ![w] =
        StartTransition([IdleTx EXCEPT !.op = "bulkApprove", !.ids = productIds,
                                       !.idx = 1],
                        productIds[1], STATES.APPROVED, userId, notes)]
  /\ UNCHANGED <<products, rules, history, nextProductId, nextRuleId, lock, calls, ratings, pricing>>

\* bulkApprove's own COMMIT (its transaction holds no statement), release,
\* return results.
BulkCommit(w) ==
  /\ tx[w].pc = "bulk_commit"
  /\ tx' = [tx EXCEPT ![w] = IdleTx]
  /\ UNCHANGED <<products, rules, history, nextProductId, nextRuleId, lock, calls, ratings, pricing>>

\* ------------------------------------------------------ initial states
\* Runs start from the empty store or from a store in which some products
\* were created by createProduct and walked by transitionState, one call
\* after the other, along draft .. archived.  Seed k is the k-th state of
\* that walk; the rows and the history are those the operations produce.
Path ==
  <<STATES.DRAFT, STATES.PENDING_APPROVAL, STATES.APPROVED, STATES.ACTIVE,
    STATES.DISCONTINUED, STATES.ARCHIVED>>

SeedActor == "alice"

RECURSIVE WalkRow(_, _)
WalkRow(row, k) ==
  IF k = 1 THEN row ELSE UpdatedProduct(WalkRow(row, k - 1), Path[k], SeedActor)

WalkHistory(p, k, t0) ==
  <<HistoryEntry(p, NULL, STATES.DRAFT, SeedActor, "Product created", t0 + 1)>>
  \o [i \in 1..(k - 1) |->
        HistoryEntry(p, Path[i], Path[i + 1], SeedActor, "note", t0 + 1 + i)]

\* A seed is a sequence, one element per product id 1..Len(seed).
SeedRow(p, e) ==
  WalkRow(InsertedProduct([sku |-> SkuNames[p], category_id |-> 1,
                           unit_price |-> e.unit_price]), e.k)

RECURSIVE SeedHistory(_, _)
SeedHistory(seed, n) ==
  IF n = 0 THEN <<>>
  ELSE LET earlier == SeedHistory(seed, n - 1)
       IN earlier \o WalkHistory(n, seed[n].k, Len(earlier))

\* Activation needs a positive price, so only such products are past approved.
SeedElems ==
  {e \in [k : 1..6, unit_price : Prices] : e.k >= 4 => e.unit_price > 0}

\* ruleSeed: the pricing rules created, one createPricingRule call after
\* the other, before the run starts.
InitWith(seed, ruleSeed) ==
  /\ products = [p \in ProductIds |->
        IF p <= Len(seed) THEN SeedRow(p, seed[p]) ELSE NoProduct]
  /\ rules = [r \in RuleIds |->
        IF r <= Len(ruleSeed) THEN RuleRow(ruleSeed[r]) ELSE NoRule]
  /\ history = SeedHistory(seed, Len(seed))
  /\ nextProductId = Len(seed) + 1
  /\ nextRuleId = Len(ruleSeed) + 1
  /\ lock = [p \in ProductIds |-> NoWorker]
  /\ tx = [w \in Workers |-> IdleTx]
  /\ calls = 0
  /\ ratings = [p \in ProductIds |-> [s \in Suppliers |-> NoRating]]
  /\ pricing = [w \in Workers |-> IdlePricing]

InitFrom(seed) == InitWith(seed, <<>>)

\* ------------------------------------------------------ specification
\* Spec: one worker serving the lifecycle and CRUD endpoints of one seeded
\* product (more can be created).
Init == \E seed \in {<<>>} \cup {<<e>> : e \in SeedElems} : InitFrom(seed)

TxStep(w) ==
  \/ TxSelect(w)
  \/ TxArchive(w)
  \/ TxUpdate(w)
  \/ TxLog(w)
  \/ TxCommit(w)
  \/ TxRollback(w)

Next ==
  \/ \E sku \in Skus, c \in {NoId} \cup Categories, price \in {x \in Prices : x > 0} :
        ProductCreate(sku, c, price)
  \/ \E id \in ProductIds, data \in UpdateData : ProductUpdate(id, data)
  \/ \E id \in ProductIds : ProductDelete(id)
  \/ \E p \in ProductIds, s \in validStates, u \in Users, n \in Notes :
        transitionState("w1", p, s, u, n)
  \/ TxStep("w1")

Spec == Init /\ [][Next]_vars

\* SpecFresh: every endpoint that writes a product row (CRUD, rating,
\* lifecycle creation and transitions), started on the empty store.
InitFresh == InitFrom(<<>>)

NextFresh ==
  \/ Next
  \/ \E id \in ProductIds, r \in RatingValues : rateProduct(id, "sup1", r)
  \/ \E productData \in ProductData, u \in Users : createProduct("w1", productData, u)
  \/ CreateStep("w1")

SpecFresh == InitFresh /\ [][NextFresh]_vars

\* SpecOps: the same endpoints and the pricing-rule endpoints, started on a
\* store that holds one product, pending approval or discontinued.
SeedElemsOps == {e \in SeedElems : e.k \in {2, 5} /\ e.unit_price > 0}

InitOps == \E e \in SeedElemsOps : InitFrom(<<e>>)

NextOps ==
  \/ \E sku \in Skus, c \in Categories, price \in {x \in Prices : x > 0} :
        ProductCreate(sku, c, price)
  \/ \E id \in ProductIds, data \in UpdateData : ProductUpdate(id, data)
  \/ \E id \in ProductIds : ProductDelete(id)
  \/ \E id \in ProductIds, r \in RatingValues : rateProduct(id, "sup1", r)
  \/ \E productData \in {pd \in ProductData : pd.unit_price > 0 /\ pd.sku \in {NoSku, SkuNames[1]}} :
        createProduct("w1", productData, "bob")
  \/ CreateStep("w1")
  \/ \E p \in ProductIds, s \in validStates, n \in Notes :
        transitionState("w1", p, s, "bob", n)
  \/ TxStep("w1")
  \/ \E ruleData \in {rd \in RuleInputs : rd.product_id = 1} : createPricingRule(ruleData)
  \/ \E id \in RuleIds : updatePricingRule(id, FALSE)

SpecOps == InitOps /\ [][NextOps]_vars

\* SpecConc: two workers run transitionState concurrently, with the CRUD
\* update and delete of the same rows in between.
InitConc == \E e \in SeedElems : InitFrom(<<e>>)

NextConc ==
  \/ \E w \in Workers, p \in {1}, s \in validStates, u \in Users, n \in Notes :
        transitionState(w, p, s, u, n)
  \/ \E w \in Workers : TxStep(w)
  \/ \E data \in UpdateData : ProductUpdate(1, data)
  \/ ProductDelete(1)

SpecConc == InitConc /\ [][NextConc]_vars

\* SpecConcLive: two workers run transitionState on product 1, which may be
\* deleted, with the scheduling the runtime guarantees: a query that can
\* run does run, so a call that can take its next step eventually takes it.
\* Requests need not arrive.
InitConcLive == \E e \in {x \in SeedElems : x.k \in {1, 3, 5}} : InitFrom(<<e>>)

NextConcLive ==
  \/ \E w \in Workers, s \in validStates : transitionState(w, 1, s, "alice", "note")
  \/ \E w \in Workers : TxStep(w)
  \/ ProductDelete(1)

SpecConcLive ==
  InitConcLive /\ [][NextConcLive]_vars /\ \A w \in Workers : WF_vars(TxStep(w))

\* SpecArchive: pricing rules are created and edited while products are
\* archived (and moved otherwise) by one worker.
SeedElemsArchive == {e \in SeedElems : e.k \in {1, 5} /\ e.unit_price > 0}

InitArchive == \E e1 \in SeedElemsArchive, e2 \in SeedElemsArchive : InitFrom(<<e1, e2>>)

NextArchive ==
  \/ \E ruleData \in RuleInputs : createPricingRule(ruleData)
  \/ \E id \in RuleIds, a \in BOOLEAN : updatePricingRule(id, a)
  \/ \E p \in ProductIds, s \in validStates, u \in Users, n \in Notes :
        transitionState("w1", p, s, u, n)
  \/ TxStep("w1")

SpecArchive == InitArchive /\ [][NextArchive]_vars

\* SpecBulk: one worker runs bulkApprove over products that are pending
\* approval, archived or absent, while product 1 may be deleted.
SeedElemsBulk == {e \in SeedElems : e.k \in {2, 6} /\ e.unit_price > 0}

BulkSeeds == UNION {[1..n -> SeedElemsBulk] : n \in (MaxProducts - 1)..MaxProducts}

InitBulk == \E seed \in BulkSeeds : InitFrom(seed)

NextBulk ==
  \/ \E ids \in BulkLists, u \in Users, n \in Notes : bulkApprove("w1", ids, u, n)
  \/ TxConnect("w1")
  \/ TxSelect("w1")
  \/ TxUpdate("w1")
  \/ TxLog("w1")
  \/ TxCommit("w1")
  \/ TxRollback("w1")
  \/ BulkCommit("w1")
  \/ ProductDelete(1)

SpecBulk == InitBulk /\ [][NextBulk]_vars

\* SpecCreate: two workers run createProduct concurrently on the empty
\* store, with supplied and with generated SKUs, next to the CRUD create.
CreateSkus == {NoSku, SkuNames[1], "ELE-2025-0007", "ELE-2025-9999"}

NextCreate ==
  \/ \E w \in Workers, sku \in CreateSkus :
        createProduct(w, [sku |-> sku, category_id |-> 1, unit_price |-> 1000], "alice")
  \/ \E w \in Workers : CreateStep(w)
  \/ \E w \in Workers : TxRollback(w)
  \/ ProductCreate(SkuNames[1], 1, 1000)

SpecCreate == InitFresh /\ [][NextCreate]_vars

\* ================================================================ claims
\* The transition table as the specification states it.
AllowList(s) ==
  CASE s = "draft" -> {"pending_approval", "archived"}
    [] s = "pending_approval" -> {"approved", "draft"}
    [] s = "approved" -> {"active"}
    [] s = "active" -> {"discontinued"}
    [] s = "discontinued" -> {"active", "archived"}
    [] s = "archived" -> {}
    [] OTHER -> {}

StoreUnchanged == products' = products /\ rules' = rules /\ history' = history

\* w takes a step of its call.
Steps(w) == tx'[w] # tx[w]

\* SpecPricing: two workers call the pricing service on a store that does not
\* change: product 1 is active, product 2 is absent or discontinued, and up
\* to MaxRules of the rules PricingRules exist.
MaxBundle == 2

PricingPrices == {10000, 1001}

Quantities == {1, 3, 20}

CustomerIds == {0, 4}

PricingRules ==
  <<RuleData("bulk", 1, NoId, 0, 1000, NoDate, NoDate),
    [RuleData("bulk", 1, NoId, 1, 2000, NoDate, Today) EXCEPT !.rule_name = "bulk B"],
    RuleData("promotion", NoId, NoId, 0, 500, Today - 1, Today + 1),
    RuleData("promotion", 1, NoId, 0, 2000, Today - 1, NoDate),
    RuleData("category", NoId, 1, 0, 2000, NoDate, NoDate),
    [RuleData("category", NoId, 1, 0, 2000, NoDate, NoDate) EXCEPT !.rule_name = "category B"]>>

\* The sequences of at most MaxRules rules, in the order of PricingRules.
RuleSeeds ==
  {sq \in UNION {[1..n -> 1..Len(PricingRules)] : n \in 0..MaxRules} :
     \A i \in 1..(Len(sq) - 1) : sq[i] < sq[i + 1]}

PricingSeeds ==
  {<<[k |-> 4, unit_price |-> x]>> : x \in PricingPrices}
  \cup {<<[k |-> 4, unit_price |-> x], [k |-> 5, unit_price |-> 1000]>> : x \in PricingPrices}

InitPricing ==
  \E seed \in PricingSeeds, sq \in RuleSeeds :
    InitWith(seed, [i \in 1..Len(sq) |-> PricingRules[sq[i]]])

BundleItems ==
  {[productId |-> 1, quantity |-> 1, customerId |-> 0],
   [productId |-> 1, quantity |-> 3, customerId |-> 4],
   [productId |-> 2, quantity |-> 1, customerId |-> 0]}

BundleLists == UNION {[1..n -> BundleItems] : n \in 1..MaxBundle}

NextPricing ==
  \/ \E p \in {1, 2}, q \in Quantities, c \in CustomerIds : calculatePrice("w1", p, q, c)
  \/ \E q \in Quantities : calculatePrice("w2", 1, q, 0)
  \/ \E w \in Workers : PriceStep(w)
  \/ \E bundleItems \in BundleLists : calculateBundlePrice("w1", bundleItems)

SpecPricing == InitPricing /\ [][NextPricing]_vars

\* SpecRules: one worker prices the active product 1 while rules are switched
\* off; up to MaxRules of the rules RuleCatalog exist at the start, among
\* them expired and half-open windows and percentages outside 0..100
\* (discount_percentage is decimal(5,2), nothing checks its range).
RuleCatalog ==
  <<RuleData("bulk", 1, NoId, 0, 1000, NoDate, NoDate),
    [RuleData("bulk", 1, NoId, 3, 2000, Today, NoDate) EXCEPT !.rule_name = "bulk 3+"],
    [RuleData("bulk", 1, NoId, 1, 3000, NoDate, Today - 1) EXCEPT !.rule_name = "bulk expired"],
    RuleData("promotion", NoId, NoId, 0, 500, Today - 1, Today + 1),
    RuleData("promotion", 1, NoId, 0, 2000, Today - 1, NoDate),
    RuleData("promotion", 1, NoId, 0, 1000, Today, Today),
    [RuleData("bulk", 1, NoId, 2, 15000, NoDate, NoDate) EXCEPT !.rule_name = "bulk 150"],
    RuleData("category", NoId, 1, 0, -1000, NoDate, NoDate)>>

CatalogSeeds ==
  {sq \in UNION {[1..n -> 1..Len(RuleCatalog)] : n \in 0..MaxRules} :
     \A i \in 1..(Len(sq) - 1) : sq[i] < sq[i + 1]}

InitRules ==
  \E sq \in CatalogSeeds :
    InitWith(<<[k |-> 4, unit_price |-> 10000]>>, [i \in 1..Len(sq) |-> RuleCatalog[sq[i]]])

NextRules ==
  \/ \E q \in {1, 3} : calculatePrice("w1", 1, q, 0)
  \/ PriceStep("w1")
  \/ \E id \in RuleIds : updatePricingRule(id, FALSE)

SpecRules == InitRules /\ [][NextRules]_vars

\* SpecSnapshot: pricing rules are created while one worker prices the
\* active product 1; nothing else changes the store, so the store at any
\* earlier instant is the rules with the ids below some k.
SnapshotRuleInputs ==
  {RuleData("bulk", 1, NoId, 0, 1000, NoDate, NoDate),
   RuleData("promotion", NoId, NoId, 0, 500, Today - 1, Today + 1),
   RuleData("category", NoId, 1, 0, 2000, NoDate, NoDate)}

InitSnapshot == InitFrom(<<[k |-> 4, unit_price |-> 10000]>>)

NextSnapshot ==
  \/ calculatePrice("w1", 1, 1, 0)
  \/ PriceStep("w1")
  \/ \E ruleData \in SnapshotRuleInputs : createPricingRule(ruleData)

SpecSnapshot == InitSnapshot /\ [][NextSnapshot]_vars

\* SpecSell: one worker creates a product through the lifecycle and moves it
\* while another prices it.
NextSell ==
  \/ \E sku \in {NoSku, SkuNames[1]} :
        createProduct("w1", [sku |-> sku, category_id |-> 1, unit_price |-> 1000], "alice")
  \/ CreateStep("w1")
  \/ \E s \in validStates : transitionState("w1", 1, s, "alice", "note")
  \/ TxStep("w1")
  \/ calculatePrice("w2", 1, 1, 0)
  \/ PriceStep("w2")

SpecSell == InitFresh /\ [][NextSell]_vars

\* SpecRate: two workers serve rateProduct requests for the active product
\* 1, the first for supplier sup1, the second for either supplier.
InitRate == InitFrom(<<[k |-> 4, unit_price |-> 1000]>>)

NextRate ==
  \/ \E rating \in RatingInputs : RateRequest("w1", 1, "sup1", rating)
  \/ \E s \in Suppliers, rating \in RatingInputs : RateRequest("w2", 1, s, rating)
  \/ \E w \in Workers : RateStep(w)

SpecRate == InitRate /\ [][NextRate]_vars

\* SpecPool: two workers run bulkApprove concurrently over two products that
\* are pending approval.
BulkPairs == {<<1>>, <<2>>, <<1, 2>>, <<2, 1>>}

InitPool == InitFrom(<<[k |-> 2, unit_price |-> 1000], [k |-> 2, unit_price |-> 1000]>>)

NextPool ==
  \/ \E w \in Workers, ids \in BulkPairs : bulkApprove(w, ids, "alice", "note")
  \/ \E w \in Workers : TxConnect(w)
  \/ \E w \in Workers : TxSelect(w)
  \/ \E w \in Workers : TxUpdate(w)
  \/ \E w \in Workers : TxLog(w)
  \/ \E w \in Workers : TxCommit(w)
  \/ \E w \in Workers : TxRollback(w)
  \/ \E w \in Workers : BulkCommit(w)

SpecPool == InitPool /\ [][NextPool]_vars

\* C1: a transition reaches its writes and commits only when the target is in
\* the allow-list of the current state; otherwise the call throws
\* InvalidTransition naming the current and the attempted state, and neither
\* the failing step nor the rollback changes products, pricing rules or
\* history.
C1_InvalidTransitionRejected ==
  [][\A w \in Workers :
       LET t == tx[w]
           row == products[t.productId]
       IN /\ (t.pc = "select" /\ tx'[w].pc \in {"archive", "update"})
               => t.newState \in AllowList(row.lifecycle_state)
          /\ (t.pc = "commit" /\ Steps(w))
               => t.newState \in AllowList(row.lifecycle_state)
          /\ (t.pc = "select" /\ Steps(w) /\ row.exists
                /\ t.newState \notin AllowList(row.lifecycle_state))
               => /\ tx'[w].pc = "rollback"
                  /\ tx'[w].error = [kind |-> "InvalidTransition",
                                     current |-> row.lifecycle_state,
                                     attempted |-> t.newState, errors |-> <<>>]
                  /\ StoreUnchanged
          /\ (t.pc = "rollback" /\ Steps(w)) => StoreUnchanged]_vars

C1_Witness ==
  \E w \in Workers :
    /\ tx[w].pc = "rollback"
    /\ tx[w].error.kind = "InvalidTransition"
    /\ tx[w].error.current = STATES.ACTIVE
    /\ tx[w].error.attempted = STATES.DRAFT
    /\ products[tx[w].productId].lifecycle_state = STATES.ACTIVE

\* C2: for every product, is_active is true exactly when lifecycle_state is
\* active.
C2_IsActiveIffActive ==
  \A p \in ProductIds :
    products[p].exists =>
      (products[p].is_active <=> products[p].lifecycle_state = STATES.ACTIVE)

\* C3: transitions on one product are mutually exclusive and serial: a call
\* past its SELECT holds the row lock alone and its snapshot is the committed
\* row, and every commit moves the committed state along an edge of the table
\* and appends exactly one history entry for that edge.
C3_TransitionsSerialized ==
  /\ [](\A w \in Workers :
          tx[w].pc \in {"archive", "update", "log", "commit"} =>
            /\ tx[w].product = products[tx[w].productId]
            /\ \A v \in Workers \ {w} :
                 tx[v].pc \in {"archive", "update", "log", "commit"} =>
                   tx[v].productId # tx[w].productId)
  /\ [][\A w \in Workers :
          LET t == tx[w]
              row == products[t.productId]
          IN (t.pc = "commit" /\ Steps(w)) =>
               /\ t.newState \in AllowList(row.lifecycle_state)
               /\ products'[t.productId].lifecycle_state = t.newState
               /\ history' = Append(history,
                    [product_id |-> t.productId, old_state |-> row.lifecycle_state,
                     new_state |-> t.newState, changed_by |-> t.userId,
                     notes |-> t.notes, changed_at |-> t.beganAt])]_vars

\* Two calls for the same edge: one holds the row, the other waits at SELECT.
C3_Witness ==
  \E w \in Workers, v \in Workers :
    /\ w # v
    /\ tx[w].pc \in {"update", "log", "commit"}
    /\ tx[v].pc = "select"
    /\ tx[v].productId = tx[w].productId
    /\ tx[v].newState = tx[w].newState

\* C4: a transitionState call changes the visible store in its COMMIT step
\* only: no other step of the call, in particular none that fails and not the
\* rollback, changes a product row, a pricing rule or the history.
C4_AllOrNothing ==
  [][\A w \in Workers :
       (Steps(w) /\ tx[w].pc # "commit") => StoreUnchanged]_vars

\* A call that failed at the history insert, after the rule deactivation and
\* the product update were issued.
C4_Witness ==
  \E w \in Workers :
    /\ tx[w].pc = "rollback"
    /\ tx[w].error.kind = "Db"
    /\ tx[w].wProduct.exists
    /\ \E r \in tx[w].wRules : rules[r].is_active

\* C5: the history is append-only with one entry per successful transition:
\* no step removes or changes an entry, a commit appends exactly the entry
\* (product, old state, new state, actor, notes) of its call and a rollback
\* appends none.
C5_HistoryAppendOnly ==
  [][/\ Len(history') >= Len(history)
     /\ SubSeq(history', 1, Len(history)) = history
     /\ \A w \in Workers :
          /\ (tx[w].pc = "commit" /\ Steps(w)) =>
               history' = Append(history,
                 [product_id |-> tx[w].productId,
                  old_state |-> products[tx[w].productId].lifecycle_state,
                  new_state |-> tx[w].newState, changed_by |-> tx[w].userId,
                  notes |-> tx[w].notes, changed_at |-> tx[w].beganAt])
          /\ (tx[w].pc = "rollback" /\ Steps(w)) => history' = history]_vars

\* The activation rules as the specification states them.
ActivationViolations(row) ==
  (IF row.unit_price > 0 THEN {} ELSE {"Valid unit price required"})
  \cup (IF row.sku # "" /\ row.sku # NULL THEN {} ELSE {"SKU required"})
  \cup (IF row.category_id # NoId THEN {} ELSE {"Category required"})

\* C6: a legal transition to active goes on to its writes only for a product
\* with unit_price > 0, a sku and a category; otherwise it throws a
\* validation error listing every violated rule once, and the product and the
\* history are unchanged by the failing step and by the rollback.
C6_ActivationValidated ==
  [][\A w \in Workers :
       LET t == tx[w]
           row == products[t.productId]
           errs == tx'[w].error.errors
       IN /\ (t.pc = "select" /\ Steps(w) /\ row.exists
                /\ t.newState = STATES.ACTIVE
                /\ row.lifecycle_state \in {STATES.APPROVED, STATES.DISCONTINUED})
               => IF ActivationViolations(row) = {}
                  THEN tx'[w].pc = "update"
                  ELSE /\ tx'[w].pc = "rollback"
                       /\ tx'[w].error.kind = "Validation"
                       /\ {errs[i] : i \in 1..Len(errs)} = ActivationViolations(row)
                       /\ Len(errs) = Cardinality(ActivationViolations(row))
                       /\ products' = products /\ history' = history
          /\ (t.pc = "rollback" /\ Steps(w) /\ t.error.kind = "Validation")
               => products' = products /\ history' = history]_vars

\* An activation rejected for two reasons at once.
C6_Witness ==
  \E w \in Workers :
    /\ tx[w].pc = "rollback"
    /\ tx[w].newState = STATES.ACTIVE
    /\ tx[w].error.kind = "Validation"
    /\ Len(tx[w].error.errors) = 2
    /\ products[tx[w].productId].lifecycle_state = STATES.APPROVED

\* C7: in the step that commits product p as archived, every pricing rule of
\* p is inactive afterwards, no rule row appears or disappears, and the rules
\* of other products, of categories and the global ones are unchanged.
C7_ArchiveDeactivatesRules ==
  [][\A p \in ProductIds :
       (/\ products[p].exists
        /\ products[p].lifecycle_state # STATES.ARCHIVED
        /\ products'[p].lifecycle_state = STATES.ARCHIVED)
       => \A r \in RuleIds :
            /\ rules'[r].exists <=> rules[r].exists
            /\ rules[r].exists =>
                 IF rules[r].product_id = p
                 THEN rules'[r] = [rules[r] EXCEPT !.is_active = FALSE]
                 ELSE rules'[r] = rules[r]]_vars

\* An archival about to commit: a rule of the product is staged for
\* deactivation while an active rule of another scope is not.
C7_Witness ==
  \E w \in Workers :
    /\ tx[w].pc = "commit"
    /\ tx[w].newState = STATES.ARCHIVED
    /\ \E r \in tx[w].wRules : rules[r].is_active
    /\ \E r \in RuleIds \ tx[w].wRules : rules[r].exists /\ rules[r].is_active

\* C8: bulkApprove keeps one result per processed id, in list order; a member
\* that commits pushes a success and leaves its product approved with its
\* history entry; a member that fails pushes a failure carrying its error,
\* changes nothing in the store, and the call goes on (it does not raise) to
\* the next id or to its final COMMIT, where the list is complete.
C8_BulkApproveIsolatesFailures ==
  /\ [](\A w \in Workers :
          tx[w].op = "bulkApprove" =>
            /\ Len(tx[w].results) = tx[w].idx - 1
            /\ \A i \in 1..Len(tx[w].results) :
                 tx[w].results[i].productId = tx[w].ids[i]
            /\ tx[w].pc = "bulk_commit" => Len(tx[w].results) = Len(tx[w].ids))
  /\ [][\A w \in Workers :
          LET t == tx[w]
              p == t.productId
          IN (t.op = "bulkApprove" /\ Steps(w)) =>
               /\ t.pc = "commit" =>
                    /\ tx'[w].results = Append(t.results,
                         [productId |-> t.ids[t.idx], success |-> TRUE, error |-> NoError])
                    /\ products'[p].lifecycle_state = STATES.APPROVED
                    /\ Len(history') = Len(history) + 1
                    /\ history'[Len(history')].product_id = p
                    /\ history'[Len(history')].new_state = STATES.APPROVED
               /\ t.pc = "rollback" =>
                    /\ tx'[w].results = Append(t.results,
                         [productId |-> t.ids[t.idx], success |-> FALSE, error |-> t.error])
                    /\ t.error.kind \in {"InvalidTransition", "NotFound", "Db"}
                    /\ tx'[w].op = "bulkApprove"
                    /\ StoreUnchanged
               /\ (t.pc \in {"commit", "rollback"} /\ t.idx < Len(t.ids)) =>
                    /\ tx'[w].pc = "connect"
                    /\ tx'[w].productId = t.ids[t.idx + 1]
                    /\ tx'[w].newState = STATES.APPROVED]_vars

\* [1,2,3] with product 2 archived and 1 and 3 pending approval: two
\* successes around one InvalidTransition failure, all three products in
\* their committed states.
C8_Witness ==
  \E w \in Workers :
    /\ tx[w].pc = "bulk_commit"
    /\ tx[w].ids = <<1, 2, 3>>
    /\ tx[w].results[1].success /\ tx[w].results[3].success
    /\ ~tx[w].results[2].success
    /\ tx[w].results[2].error.kind = "InvalidTransition"
    /\ tx[w].results[2].error.current = STATES.ARCHIVED
    /\ products[1].lifecycle_state = STATES.APPROVED
    /\ products[2].lifecycle_state = STATES.ARCHIVED
    /\ products[3].lifecycle_state = STATES.APPROVED

\* C9: once a product is archived it stays archived in every later state, and
\* every transition attempted on it fails with InvalidTransition.
C9_ArchivedIsTerminal ==
  [][\A p \in ProductIds :
       (products[p].exists /\ products[p].lifecycle_state = STATES.ARCHIVED) =>
         /\ products'[p].exists
         /\ products'[p].lifecycle_state = STATES.ARCHIVED
         /\ \A w \in Workers :
              (tx[w].pc = "select" /\ tx[w].productId = p /\ Steps(w)) =>
                tx'[w].error.kind = "InvalidTransition"]_vars

\* C10: a product that has reached archived is never removed from the store.
C10_ArchivedNeverDeleted ==
  [][\A p \in ProductIds :
       (products[p].exists /\ products[p].lifecycle_state = STATES.ARCHIVED) =>
         products'[p].exists]_vars

\* C11: in every step of every run of the public operations, the
\* lifecycle_state of a product that exists before and after the step stays
\* the same or moves to a member of the allow-list of its state, and it moves
\* only in the COMMIT step of a transitionState call for that product and
\* that target.
C11_StateOnlyByTransition ==
  [][\A p \in ProductIds :
       (/\ products[p].exists /\ products'[p].exists
        /\ products'[p].lifecycle_state # products[p].lifecycle_state)
       => /\ products'[p].lifecycle_state \in AllowList(products[p].lifecycle_state)
          /\ \E w \in Workers :
               /\ tx[w].pc = "commit" /\ Steps(w)
               /\ tx[w].productId = p
               /\ tx[w].newState = products'[p].lifecycle_state]_vars

\* A product that was approved by a transition, then edited through the CRUD
\* update and rated.
C11_Witness ==
  \E p \in ProductIds :
    /\ products[p].exists
    /\ products[p].lifecycle_state = STATES.APPROVED
    /\ ~products[p].is_active
    /\ products[p].total_ratings = 1

\* C12: approved_by and approved_at of a product change only in the COMMIT
\* step of a transition of that product to approved, which sets approved_by
\* to the userId of the call and approved_at to its timestamp; every other
\* step leaves both as they are, a product appears with both null, and both
\* are null for a product with no transition to approved in its history.
C12_ApprovalStamp ==
  /\ [][\A p \in ProductIds :
          /\ (products[p].exists /\ products'[p].exists) =>
               IF \E w \in Workers :
                    /\ tx[w].pc = "commit" /\ Steps(w) /\ tx[w].productId = p
                    /\ tx[w].newState = "approved"
               THEN /\ \E w \in Workers :
                         /\ tx[w].pc = "commit" /\ Steps(w) /\ tx[w].productId = p
                         /\ products'[p].approved_by = tx[w].userId
                    /\ products'[p].approved_at # NULL
               ELSE /\ products'[p].approved_by = products[p].approved_by
                    /\ products'[p].approved_at = products[p].approved_at
          /\ (~products[p].exists /\ products'[p].exists) =>
               /\ products'[p].approved_by = NULL
               /\ products'[p].approved_at = NULL]_vars
  /\ [](\A p \in ProductIds :
          (/\ products[p].exists
           /\ \A i \in 1..Len(history) :
                ~(history[i].product_id = p /\ history[i].new_state = "approved"))
          => products[p].approved_by = NULL /\ products[p].approved_at = NULL)

\* A product approved by bob whose activation, called by bob as well, is
\* about to commit.
C12_Witness ==
  \E w \in Workers :
    /\ tx[w].pc = "commit"
    /\ tx[w].newState = STATES.ACTIVE
    /\ products[tx[w].productId].approved_by = "bob"
    /\ products[tx[w].productId].lifecycle_state = STATES.APPROVED

\* C13: createProduct changes the visible store in its COMMIT step only, and
\* that step adds exactly the new product, in draft, and appends exactly one
\* history entry for it with old_state null, new_state draft and changed_by
\* the creator; no other step of the call, in particular none that fails and
\* not the rollback, makes a product or a history entry visible.
C13_CreateAtomic ==
  [][\A w \in Workers :
       LET t == tx[w]
       IN (t.op = "createProduct" /\ Steps(w)) =>
            IF t.pc = "create_commit"
            THEN /\ ~products[t.productId].exists
                 /\ products'[t.productId].exists
                 /\ products'[t.productId].lifecycle_state = "draft"
                 /\ products'[t.productId].sku = t.sku
                 /\ \A p \in ProductIds \ {t.productId} : products'[p] = products[p]
                 /\ history' = Append(history,
                      [product_id |-> t.productId, old_state |-> NULL,
                       new_state |-> "draft", changed_by |-> t.userId,
                       notes |-> "Product created", changed_at |-> t.beganAt])
            ELSE StoreUnchanged]_vars

\* A call whose history append failed after its INSERT: nothing of it is
\* in the store.
C13_Witness ==
  \E w \in Workers :
    /\ tx[w].op = "createProduct"
    /\ tx[w].pc = "rollback"
    /\ tx[w].error.kind = "Db"
    /\ tx[w].wProduct.exists
    /\ ~products[tx[w].productId].exists
    /\ \A i \in 1..Len(history) : history[i].product_id # tx[w].productId

\* C14: no two products have the same sku, and a createProduct call that
\* reaches its SKU check or its INSERT while a product with its sku exists
\* fails there with a duplicate-SKU error (unless the query itself fails)
\* and changes nothing; this covers calls that run concurrently with the
\* same supplied or the same generated sku.
C14_SkuUnique ==
  /\ [](\A p \in ProductIds, q \in ProductIds :
          (p # q /\ products[p].exists /\ products[q].exists)
            => products[p].sku # products[q].sku)
  /\ [][\A w \in Workers :
          LET t == tx[w]
          IN (/\ t.op = "createProduct" /\ Steps(w)
              /\ t.pc \in {"check", "insert"} /\ ~t.aborted
              /\ \E p \in ProductIds : products[p].exists /\ products[p].sku = t.sku)
             => /\ tx'[w].pc = "rollback"
                /\ tx'[w].error.kind \in {"Conflict", "UniqueViolation", "Db"}
                /\ (t.pc = "check" /\ tx'[w].error.kind # "Db")
                     => tx'[w].error.kind = "Conflict"
                /\ (t.pc = "insert") => tx'[w].error.kind = "UniqueViolation"
                /\ StoreUnchanged]_vars

\* Two concurrent calls generated the same SKU: one committed, the other
\* failed at its INSERT.
C14_Witness ==
  \E w \in Workers, p \in ProductIds :
    /\ tx[w].op = "createProduct"
    /\ tx[w].pc = "rollback"
    /\ tx[w].error.kind = "UniqueViolation"
    /\ tx[w].productData.sku = NoSku
    /\ products[p].exists /\ products[p].sku = tx[w].sku

\* The sequence numbers of the existing SKUs of a category code and year.
C15_Prefix == "ELE-2025-"

C15_Sequences ==
  {CastInteger(SubSeq(products[p].sku, Len(C15_Prefix) + 1, Len(products[p].sku))) :
     p \in {q \in ProductIds :
              /\ products[q].exists
              /\ Like(products[q].sku, C15_Prefix)
              /\ Len(products[q].sku) > Len(C15_Prefix)
              /\ \A i \in (Len(C15_Prefix) + 1)..Len(products[q].sku) :
                   IsDigit(SubSeq(products[q].sku, i, i))}}

\* C15: the SKU generated for a call without sku is the category code, the
\* year and a sequence of exactly 4 digits whose value is 1 + the maximum
\* sequence among the existing SKUs of that code and year (1 when there are
\* none), so it is greater than each of them.
C15_GeneratedSkuFormat ==
  [][\A w \in Workers :
       (tx[w].pc = "generate" /\ Steps(w) /\ ~tx'[w].aborted) =>
         LET sku == tx'[w].sku
             n == Len(C15_Prefix)
         IN /\ Len(sku) = n + 4
            /\ SubSeq(sku, 1, n) = C15_Prefix
            /\ \A i \in (n + 1)..(n + 4) : IsDigit(SubSeq(sku, i, i))
            /\ CastInteger(SubSeq(sku, n + 1, n + 4)) = Max({0} \cup C15_Sequences) + 1
            /\ \A m \in C15_Sequences : m < CastInteger(SubSeq(sku, n + 1, n + 4))]_vars

\* C16: a createProduct call whose SKU generation fell back to the random
\* SKU is not failed by that: its SKU check passes on to the INSERT (the
\* random SKU is not taken).
C16_FallbackCompletes ==
  [][\A w \in Workers :
       (tx[w].pc = "check" /\ tx[w].aborted /\ Steps(w) /\ ~SkuTaken(tx[w].sku))
         => tx'[w].pc = "insert"]_vars

\* The discount types in the order calculatePrice tries them.
DiscountTypes == <<"bulk", "promotion", "category", "customer_tier">>

TypeRank(type) == CHOOSE i \in 1..Len(DiscountTypes) : DiscountTypes[i] = type

\* The product of (1 - pct/100) over the first n applied discounts.
RECURSIVE Factor(_, _)
Factor(ds, n) ==
  IF n = 0 THEN Frac(1, 1)
  ELSE Times(Factor(ds, n - 1), Frac(10000 - ds[n].percentage, 10000))

Applied(c, type) == \E i \in 1..Len(c.appliedDiscounts) : c.appliedDiscounts[i].type = type

\* C17: when calculatePrice returns, the applied discounts are in the order
\* bulk, promotion, category, customer tier, one is applied for each type
\* that has a matching rule (or tier), each discount's amount is its
\* percentage of the running price left by the discounts before it, and the
\* unrounded unit price is basePrice times the product of (1 - pct/100).
C17_DiscountOrder ==
  \A w \in Workers :
    LET c == pricing[w]
        ds == c.appliedDiscounts
    IN c.pc = "done" =>
         /\ c.basePrice = Frac(products[c.productId].unit_price, 1)
         /\ \A i, j \in 1..Len(ds) : i < j => TypeRank(ds[i].type) < TypeRank(ds[j].type)
         /\ Applied(c, "bulk") <=> getBulkDiscount(c.productId, c.quantity) # {}
         /\ Applied(c, "promotion") <=> getActiveTimePromotion(c.productId) # {}
         /\ Applied(c, "category") <=>
              getCategoryDiscount(products[c.productId].category_id) # {}
         /\ Applied(c, "customer_tier") <=>
              (c.customerId # 0 /\ getCustomerTier(c.customerId) # NULL)
         /\ \A i \in 1..Len(ds) :
              ds[i].amount =
                Times(Times(Times(c.basePrice, Factor(ds, i - 1)),
                            Frac(ds[i].percentage, 10000)),
                      Frac(c.quantity, 1))
         /\ c.finalPrice = Times(c.basePrice, Factor(ds, Len(ds)))

\* Base price 100.00 with a 10% bulk rule and a 5% promotion: 10.00 off, then
\* 4.50 off the remaining 90.00, pricePerUnit 85.50.
C17_Witness ==
  \E w \in Workers :
    LET c == pricing[w]
    IN /\ c.pc = "done" /\ c.op = "calculatePrice"
       /\ c.quantity = 1
       /\ c.result[1].basePrice = 10000
       /\ Len(c.appliedDiscounts) = 2
       /\ c.appliedDiscounts[1].type = "bulk"
       /\ c.appliedDiscounts[1].percentage = 1000
       /\ c.appliedDiscounts[1].amount = Frac(1000, 1)
       /\ c.appliedDiscounts[2].type = "promotion"
       /\ c.appliedDiscounts[2].percentage = 500
       /\ c.appliedDiscounts[2].amount = Frac(450, 1)
       /\ c.result[1].pricePerUnit = 8550

\* C18: the breakdown calculatePrice returns has
\* finalTotal = round(pricePerUnit * quantity, 2), pricePerUnit being the
\* returned, rounded unit price (in cents the product is a whole number).
C18_FinalTotal ==
  \A w \in Workers :
    (pricing[w].pc = "done" /\ pricing[w].op = "calculatePrice") =>
      pricing[w].result[1].finalTotal =
        pricing[w].result[1].pricePerUnit * pricing[w].result[1].quantity

\* C19: two calculatePrice calls with the same productId, quantity and
\* customerId on the same store and date return identical breakdowns.
C19_Deterministic ==
  \A w1, w2 \in Workers :
    LET c1 == pricing[w1]
        c2 == pricing[w2]
    IN (/\ c1.pc = "done" /\ c1.op = "calculatePrice"
        /\ c2.pc = "done" /\ c2.op = "calculatePrice"
        /\ c1.productId = c2.productId
        /\ c1.quantity = c2.quantity
        /\ c1.customerId = c2.customerId)
       => c1.result = c2.result

Priceable(productId) == products[productId].exists /\ products[productId].is_active

\* C20: a finished calculatePrice call on an unknown or inactive product has
\* failed with NotFound and returned no breakdown; a finished
\* calculateBundlePrice call with such an item has failed with NotFound at
\* the first such item and returned no bundle result.
C20_NotFoundAborts ==
  \A w \in Workers :
    LET c == pricing[w]
    IN /\ (c.op = "calculatePrice" /\ c.pc \in {"done", "failed"}
             /\ ~Priceable(c.productId))
          => (c.pc = "failed" /\ c.error = ProductNotFound /\ c.result = <<>>)
       /\ (c.op = "calculateBundlePrice" /\ c.pc \in {"done", "failed"}
             /\ \E i \in 1..Len(c.items) : ~Priceable(c.items[i].productId))
          => /\ c.pc = "failed" /\ c.error = ProductNotFound /\ c.bundle = <<>>
             /\ ~Priceable(c.items[c.idx].productId)
             /\ \A i \in 1..(c.idx - 1) : Priceable(c.items[i].productId)

\* A bundle whose first item was priced and whose second item is a
\* discontinued product: the call failed, nothing was returned.
C20_Witness ==
  \E w \in Workers :
    LET c == pricing[w]
    IN /\ c.op = "calculateBundlePrice" /\ c.pc = "failed"
       /\ c.idx = 2 /\ Len(c.itemDetails) = 1
       /\ products[c.items[2].productId].exists
       /\ ~products[c.items[2].productId].is_active
       /\ c.error = ProductNotFound /\ c.bundle = <<>>

\* The bulk rules that qualify for the call c, read off the rule rows.
BulkQualifiers(c) ==
  {r \in RuleIds :
     /\ rules[r].exists /\ rules[r].is_active
     /\ rules[r].rule_type = "bulk"
     /\ rules[r].product_id = c.productId
     /\ rules[r].min_quantity <= c.quantity
     /\ rules[r].valid_from = NoDate \/ rules[r].valid_from <= Today
     /\ rules[r].valid_until = NoDate \/ rules[r].valid_until >= Today}

LastDiscount(c) == c.appliedDiscounts[Len(c.appliedDiscounts)]

\* C21: the bulk step of calculatePrice applies at most one bulk rule, a
\* qualifying rule (product, type bulk, active, min_quantity <= quantity,
\* window open, a null bound unbounded) of the highest min_quantity; when no
\* rule qualifies the step raises no error and leaves the price and the
\* applied discounts as they were.
C21_BulkSelection ==
  [][\A w \in Workers :
       (pricing[w].pc = "bulk" /\ pricing'[w] # pricing[w]) =>
         LET c == pricing[w]
             d == pricing'[w]
         IN /\ d.pc = "promotion" /\ d.error = NoError
            /\ IF BulkQualifiers(c) = {}
               THEN d.finalPrice = c.finalPrice /\ d.appliedDiscounts = c.appliedDiscounts
               ELSE /\ Len(d.appliedDiscounts) = Len(c.appliedDiscounts) + 1
                    /\ LastDiscount(d).type = "bulk"
                    /\ \E r \in BulkQualifiers(c) :
                         /\ \A q \in BulkQualifiers(c) :
                              rules[q].min_quantity <= rules[r].min_quantity
                         /\ LastDiscount(d).rule = rules[r].rule_name
                         /\ LastDiscount(d).percentage = rules[r].discount_percentage]_vars

\* Quantity 3 with the rules "bulk" (min 1, 10%) and "bulk 3+" (min 3, 20%)
\* both qualifying: the 20% rule was applied.
C21_Witness ==
  \E w \in Workers :
    LET c == pricing[w]
    IN /\ c.pc = "promotion" /\ c.quantity = 3
       /\ \E r1, r2 \in BulkQualifiers(c) : rules[r1].min_quantity < rules[r2].min_quantity
       /\ Len(c.appliedDiscounts) = 1
       /\ c.appliedDiscounts[1].rule = "bulk 3+"
       /\ c.finalPrice = Frac(8000, 1)

\* The promotion rules that qualify for the call c, read off the rule rows.
PromotionQualifiers(c) ==
  {r \in RuleIds :
     /\ rules[r].exists /\ rules[r].is_active
     /\ rules[r].rule_type = "promotion"
     /\ rules[r].product_id \in {c.productId, NoId}
     /\ rules[r].valid_from # NoDate /\ rules[r].valid_until # NoDate
     /\ rules[r].valid_from <= Today /\ Today <= rules[r].valid_until}

\* C22: the promotion step of calculatePrice applies at most one promotion
\* rule, an active rule scoped to the product or global whose window has both
\* bounds set and contains today, of the highest discount_percentage; a rule
\* with a null valid_from or valid_until is never applied.
C22_PromotionSelection ==
  [][\A w \in Workers :
       (pricing[w].pc = "promotion" /\ pricing'[w] # pricing[w]) =>
         LET c == pricing[w]
             d == pricing'[w]
         IN /\ d.pc = "category" /\ d.error = NoError
            /\ IF PromotionQualifiers(c) = {}
               THEN d.finalPrice = c.finalPrice /\ d.appliedDiscounts = c.appliedDiscounts
               ELSE /\ Len(d.appliedDiscounts) = Len(c.appliedDiscounts) + 1
                    /\ LastDiscount(d).type = "promotion"
                    /\ \E r \in PromotionQualifiers(c) :
                         /\ \A q \in PromotionQualifiers(c) :
                              rules[q].discount_percentage <= rules[r].discount_percentage
                         /\ LastDiscount(d).percentage = rules[r].discount_percentage]_vars

\* An active 20% promotion without valid_until and the global 5% promotion:
\* the 5% one was applied.
C22_Witness ==
  \E w \in Workers :
    LET c == pricing[w]
    IN /\ c.pc = "category"
       /\ \E r \in RuleIds :
            /\ rules[r].exists /\ rules[r].is_active /\ rules[r].rule_type = "promotion"
            /\ rules[r].valid_until = NoDate /\ rules[r].discount_percentage = 2000
       /\ \E r \in PromotionQualifiers(c) : rules[r].product_id = NoId
       /\ Len(c.appliedDiscounts) = 1
       /\ c.appliedDiscounts[1].type = "promotion"
       /\ c.appliedDiscounts[1].percentage = 500

\* C30: every breakdown calculatePrice returns has
\* 0 <= pricePerUnit <= basePrice, no negative discount amount and
\* totalDiscount <= subtotal, whatever rules are stored.
C30_DiscountsBounded ==
  \A w \in Workers :
    (pricing[w].pc = "done" /\ pricing[w].op = "calculatePrice") =>
      LET b == pricing[w].result[1]
      IN /\ 0 <= b.pricePerUnit /\ b.pricePerUnit <= b.basePrice
         /\ \A i \in 1..Len(b.appliedDiscounts) : b.appliedDiscounts[i].amount.n >= 0
         /\ b.totalDiscount <= b.subtotal

\* The status the specification assigns to an error kind.
StatusOfKind(kind) ==
  CASE kind = "NotFound" -> 404
    [] kind \in {"InvalidTransition", "Validation"} -> 400
    [] OTHER -> 500

\* C23: when a transitionState call has thrown, the generic handler and the
\* shortcut handler for its target state respond with the status of the
\* error's kind: 404 for not found, 400 for an invalid transition or a failed
\* activation validation, 500 otherwise.
C23_StatusByKind ==
  \A w \in Workers :
    (tx[w].op = "transitionState" /\ tx[w].pc = "rollback") =>
      \A h \in HandlersFor(tx[w].newState) :
        responseStatus(h, tx[w].error) = StatusOfKind(tx[w].error.kind)

\* The category rules that qualify for the call c, read off the rule rows.
CategoryQualifiers(c) ==
  {r \in RuleIds :
     /\ rules[r].exists /\ rules[r].is_active
     /\ rules[r].rule_type = "category"
     /\ products[c.productId].category_id # NoId
     /\ rules[r].category_id = products[c.productId].category_id
     /\ rules[r].valid_from = NoDate \/ rules[r].valid_from <= Today
     /\ rules[r].valid_until = NoDate \/ rules[r].valid_until >= Today}

\* One discount step on the snapshot "rules with id < k": the rule of Q with
\* the greatest key among those in the snapshot, if any.
SnapshotStep(c, k, Q, key, type) ==
  LET S == {r \in Q : r < k}
      r == CHOOSE x \in S : \A y \in S : key[y] <= key[x]
  IN IF S = {} THEN c
     ELSE applyDiscount(c, c.finalPrice, type,
                        IF type = "promotion" THEN rules[r].promo_name ELSE rules[r].rule_name,
                        rules[r].discount_percentage)

\* The breakdown of call c (no customer) computed from the product row and
\* the rules with id < k alone.
SnapshotBreakdown(c, k) ==
  LET c0 == [c EXCEPT !.finalPrice = c.basePrice, !.appliedDiscounts = <<>>]
      c1 == SnapshotStep(c0, k, BulkQualifiers(c), MinQuantity, "bulk")
      c2 == SnapshotStep(c1, k, PromotionQualifiers(c), DiscountPercentage, "promotion")
      c3 == SnapshotStep(c2, k, CategoryQualifiers(c), DiscountPercentage, "category")
  IN Breakdown(c3)

C29_OnlyActivePriced ==
  [][\A w \in Workers :
       (pricing[w].pc = "product" /\ pricing'[w].pc # "product")
         => IF products[pricing[w].productId].exists
               /\ products[pricing[w].productId].lifecycle_state = STATES.ACTIVE
            THEN pricing'[w].pc # "failed"
            ELSE pricing'[w].pc = "failed" /\ pricing'[w].error = ProductNotFound]_vars

\* No rateProduct call on product p is in progress.
RatingsSettled(p) ==
  \A w \in Workers : ~(tx[w].op = "rateProduct" /\ tx[w].productId = p)

\* C27: once the rateProduct calls on a product have completed, its
\* total_ratings is the number of its rating rows and its average_rating
\* their mean (one row per product and supplier); a call with a rating
\* outside 1..5 ends without changing the rating rows or the product.
C27_RatingAggregates ==
  /\ [](\A p \in ProductIds :
          (products[p].exists /\ RatingsSettled(p))
            => /\ products[p].total_ratings = Cardinality(RatedBy(ratings, p))
               /\ products[p].average_rating = AvgRating(ratings, p))
  /\ [][\A w \in Workers :
          (tx[w].pc = "rate_check" /\ tx[w].rating \notin 1..5)
            => (tx'[w] = tx[w] \/ (tx'[w].pc = "idle" /\ StoreUnchanged
                                    /\ ratings' = ratings))]_vars

\* C28: concurrent bulkApprove calls never end up all waiting for a pooled
\* connection: whenever a member transitionState waits for its client, a
\* client is free or some call that holds one is not itself waiting, so
\* every call goes on to return its results list.
C28_BulkApproveReturns ==
  (\E w \in Workers : tx[w].pc = "connect")
    => \/ FreeConnections > 0
       \/ \E v \in Workers : Connections(v) > 0 /\ tx[v].pc # "connect"

\* C25: a product's row lock is held only by a transitionState call that is
\* past its SELECT on that product; a call ends in its COMMIT or ROLLBACK step
\* and holds neither a row lock nor a pooled connection afterwards; and
\* every call that starts eventually ends, so a call waiting for the row is
\* not blocked forever.
C25_LockReleased ==
  /\ [](\A p \in ProductIds :
          lock[p] # NoWorker =>
            /\ tx[lock[p]].productId = p
            /\ tx[lock[p]].pc \in {"archive", "update", "log", "commit", "rollback"})
  /\ [][\A w \in Workers :
          (tx[w].pc # "idle" /\ tx'[w].pc = "idle") =>
            /\ tx[w].pc \in {"commit", "rollback"}
            /\ \A p \in ProductIds : lock'[p] # w
            /\ FreeConnections' = FreeConnections + 1]_vars
  /\ \A w \in Workers : (tx[w].pc # "idle") ~> (tx[w].pc = "idle")

\* One call failed after its SELECT and still holds the row before its
\* ROLLBACK, the other waits for the same row.
C25_Witness ==
  \E w \in Workers, v \in Workers :
    /\ w # v
    /\ tx[w].pc = "rollback" /\ lock[tx[w].productId] = w
    /\ tx[v].pc = "select" /\ tx[v].productId = tx[w].productId
    /\ products[tx[v].productId].exists

\* The history rows of product p, and the next row after e by changed_at.
HistoryOf(p) == {history[i] : i \in {j \in 1..Len(history) : history[j].product_id = p}}

Follows(p, e, f) ==
  /\ e.changed_at < f.changed_at
  /\ ~\E g \in HistoryOf(p) : e.changed_at < g.changed_at /\ g.changed_at < f.changed_at

\* C26: the history rows of a product created by createProduct, taken in the
\* order of changed_at, form a chain: the first is null -> draft, each later
\* row starts in the state the row before it ended in and is an edge of the
\* transition table, and the last row ends in the product's current state.
C26_HistoryChain ==
  \A p \in ProductIds :
    products[p].exists =>
      /\ \E e \in HistoryOf(p) :
           /\ \A f \in HistoryOf(p) : e.changed_at <= f.changed_at
           /\ e.old_state = NULL /\ e.new_state = STATES.DRAFT
      /\ \A e \in HistoryOf(p), f \in HistoryOf(p) :
           Follows(p, e, f) =>
             /\ f.old_state = e.new_state
             /\ f.new_state \in AllowList(f.old_state)
      /\ \E e \in HistoryOf(p) :
           /\ \A f \in HistoryOf(p) : f.changed_at <= e.changed_at
           /\ e.new_state = products[p].lifecycle_state

====
